---- MODULE Spec2Model ----
(***************************************************************************)
(* Model of tuplex/python/src/PythonContext.cc: the transfer of a Python   *)
(* list to backend partitions (parallelize and its encoders), the type     *)
(* inference over a sample (inferType / buildRowTypeFromSamples) and the   *)
(* option-type helpers (isSubOptionType / hasSuperOptionType).             *)
(***************************************************************************)
EXTENDS Integers, Sequences, FiniteSets, TLC

(***************************************************************************)
(* Bounds of the model.                                                    *)
(***************************************************************************)
\* longest input list handed to parallelize
MaxLen == 3
\* largest sample walked by inferType in the inference specification
MaxSamples == 5
\* PythonContext::allocMinSize (declared in PythonContext.h); small, so that
\* partitions roll over within MaxLen rows
allocMinSize == 16
\* the allocator may hand out a partition this many bytes larger than asked
AllocSlack == 8

(***************************************************************************)
(* python::Type.  A type is a tuple whose first element names the variant: *)
(* <<"i64">>, <<"Option", t>>, <<"Tuple", <<t1, ..., tn>>>>,               *)
(* <<"List", t>>, <<"Dict", k, v>>.                                        *)
(***************************************************************************)
Type_UNKNOWN == <<"unknown">>
Type_BOOLEAN == <<"boolean">>
Type_I64 == <<"i64">>
Type_F64 == <<"f64">>
Type_STRING == <<"str">>
Type_NULLVALUE == <<"null">>
Type_PYOBJECT == <<"pyobject">>
Type_EMPTYDICT == <<"emptydict">>
Type_GENERICDICT == <<"genericdict">>

makeOptionType(t) == <<"Option", t>>
makeTupleType(ts) == <<"Tuple", ts>>
makeListType(t) == <<"List", t>>
makeDictionaryType(k, v) == <<"Dict", k, v>>

isOptionType(t) == t[1] = "Option"
isTupleType(t) == t[1] = "Tuple"
isListType(t) == t[1] = "List"
isDictionaryType(t) == t[1] = "Dict" \/ t = Type_EMPTYDICT \/ t = Type_GENERICDICT
getReturnType(t) == t[2]
parameters(t) == t[2]
keyType(t) == IF t[1] = "Dict" THEN t[2] ELSE Type_UNKNOWN

\* the simple scalars the fast tuple encoder has a type character for
SimpleTypes == {Type_BOOLEAN, Type_I64, Type_F64, Type_STRING}

tupleElementsHaveSimpleTypes(t) ==
    \A j \in 1..Len(parameters(t)) : parameters(t)[j] \in SimpleTypes

(***************************************************************************)
(* isSubOptionType (PythonContext.cc:450-462).                             *)
(***************************************************************************)
RECURSIVE isSubOptionType(_, _)
isSubOptionType(t1, t2) ==
    IF t1 = t2 THEN TRUE
    ELSE IF isOptionType(t2) /\ (t1 = getReturnType(t2) \/ t1 = Type_NULLVALUE) THEN TRUE
    ELSE IF isTupleType(t1) /\ isTupleType(t2)
            /\ Len(parameters(t1)) = Len(parameters(t2))
         THEN \A k \in 1..Len(parameters(t2)) :
                 isSubOptionType(parameters(t1)[k], parameters(t2)[k])
    ELSE FALSE

(***************************************************************************)
(* hasSuperOptionType (PythonContext.cc:770-806).  The C++ function        *)
(* returns a bool and writes the out-parameter super only on success; the  *)
(* operator returns <<ok, super'>> with super' = super on failure.         *)
(***************************************************************************)
RECURSIVE hasSuperOptionType(_, _, _)
RECURSIVE superOptionFields(_, _, _, _)
\* the loop of lines 798-800 over the fields, from field k on, with the
\* local vector types filled so far; <<ok, types>>
superOptionFields(p1, p2, k, types) ==
    IF k > Len(p1) THEN <<TRUE, types>>
    ELSE LET r == hasSuperOptionType(p1[k], p2[k], Type_UNKNOWN)
         IN  IF ~r[1] THEN <<FALSE, types>>
             ELSE superOptionFields(p1, p2, k + 1, Append(types, r[2]))

\* the function without the test of t2 being the option type (lines 780-783)
hasSuperOptionTypeFirstOnly(t1, t2, super) ==
    IF t1 = t2 THEN <<TRUE, t1>>
    ELSE IF isOptionType(t1) /\ (getReturnType(t1) = t2 \/ Type_NULLVALUE = t2)
         THEN <<TRUE, t1>>
    ELSE IF t1 = Type_NULLVALUE THEN <<TRUE, makeOptionType(t2)>>
    ELSE IF t2 = Type_NULLVALUE THEN <<TRUE, makeOptionType(t1)>>
    ELSE IF isTupleType(t1) /\ isTupleType(t2)
            /\ Len(parameters(t1)) = Len(parameters(t2))
         THEN LET r == superOptionFields(parameters(t1), parameters(t2), 1, <<>>)
              IN  IF r[1] THEN <<TRUE, makeTupleType(r[2])>> ELSE <<FALSE, super>>
    ELSE <<FALSE, super>>

hasSuperOptionType(t1, t2, super) ==
    IF t1 = t2 THEN <<TRUE, t1>>
    ELSE IF isOptionType(t1) /\ (getReturnType(t1) = t2 \/ Type_NULLVALUE = t2)
         THEN <<TRUE, t1>>
    ELSE IF isOptionType(t2) /\ (getReturnType(t2) = t1 \/ Type_NULLVALUE = t1)
         THEN <<TRUE, t2>>
    ELSE IF t1 = Type_NULLVALUE THEN <<TRUE, makeOptionType(t2)>>
    ELSE IF t2 = Type_NULLVALUE THEN <<TRUE, makeOptionType(t1)>>
    ELSE IF isTupleType(t1) /\ isTupleType(t2)
            /\ Len(parameters(t1)) = Len(parameters(t2))
         THEN LET r == superOptionFields(parameters(t1), parameters(t2), 1, <<>>)
              IN  IF r[1] THEN <<TRUE, makeTupleType(r[2])>> ELSE <<FALSE, super>>
    ELSE <<FALSE, super>>

(***************************************************************************)
(* Python objects.  An object is a tuple whose first element names its     *)
(* class: <<"bool", 0|1>>, <<"int", v, fits>> (fits: the value fits in a   *)
(* signed 64-bit integer, i.e. PyLong_AsLongLong succeeds), <<"float", h>> *)
(* (the double h/2), <<"str", code points>>, <<"none">>,                   *)
(* <<"tuple", elements>>, <<"dict", <<key, value>> pairs>>, <<"object">>.  *)
(***************************************************************************)
Py_True == <<"bool", 1>>
Py_False == <<"bool", 0>>
Py_None == <<"none">>
PyLong(v) == <<"int", v, TRUE>>
PyLongTooLarge(v) == <<"int", v, FALSE>>
PyFloat(h) == <<"float", h>>
PyStr(s) == <<"str", s>>
PyTuple(elems) == <<"tuple", elems>>
PyDict(items) == <<"dict", items>>
PyObject == <<"object">>

PyBool_Check(o) == o[1] = "bool"
PyLong_CheckExact(o) == o[1] = "int"
PyFloat_CheckExact(o) == o[1] = "float"
PyUnicode_Check(o) == o[1] = "str"
PyTuple_Check(o) == o[1] = "tuple"
PyDict_Check(o) == o[1] = "dict"

\* the type seen most often in the sequence ts, the earliest winning a tie
PooledType(ts) ==
    LET n(k) == Cardinality({x \in 1..Len(ts) : ts[x] = ts[k]})
    IN  ts[CHOOSE k \in 1..Len(ts) :
               \A x \in 1..Len(ts) : n(x) < n(k) \/ (n(x) = n(k) /\ k <= x)]

\* python::mapPythonClassToTuplexType: the ground type of one object; the
\* key and value types of a dict are inferred over its pooled keys and values
RECURSIVE mapPythonClassToTuplexType(_)
RECURSIVE mapElementTypes(_, _)
mapElementTypes(elems, k) ==
    IF k > Len(elems) THEN <<>>
    ELSE <<mapPythonClassToTuplexType(elems[k])>> \o mapElementTypes(elems, k + 1)

mapPythonClassToTuplexType(o) ==
    CASE PyBool_Check(o) -> Type_BOOLEAN
      [] PyLong_CheckExact(o) -> Type_I64
      [] PyFloat_CheckExact(o) -> Type_F64
      [] PyUnicode_Check(o) -> Type_STRING
      [] o = Py_None -> Type_NULLVALUE
      [] PyTuple_Check(o) -> makeTupleType(mapElementTypes(o[2], 1))
      [] PyDict_Check(o) ->
            IF Len(o[2]) = 0 THEN Type_EMPTYDICT
            ELSE makeDictionaryType(
                    PooledType([k \in 1..Len(o[2]) |-> mapPythonClassToTuplexType(o[2][k][1])]),
                    PooledType([k \in 1..Len(o[2]) |-> mapPythonClassToTuplexType(o[2][k][2])]))
      [] OTHER -> Type_PYOBJECT

(***************************************************************************)
(* buildRowTypeFromSamples (PythonContext.cc:808-866).                     *)
(*                                                                         *)
(* colTypes is the histogram std::map<python::Type,int>, a function from   *)
(* types to counts.  Two orders over its keys enter the computation and    *)
(* are decided by code outside this file (python::Type::operator< for the  *)
(* map, python::Type::isSubclass for the comparator handed to std::sort):  *)
(* mapOrder is the iteration order of the map, sortedOrder the order of    *)
(* the vector types after std::sort.  Both are parameters here and the     *)
(* callers range over every enumeration of the keys.                       *)
(*                                                                         *)
(* The threshold is a fraction <<num, den>> with den a power of two, so    *)
(* 1 - threshold is exact in double arithmetic and, for the small samples  *)
(* of the model, comparing the rounded quotient count/numSamples with it   *)
(* agrees with comparing the exact quotient; the comparisons are written   *)
(* cross-multiplied.                                                       *)
(***************************************************************************)
\* std::numeric_limits<int>::min()
IntMin == -2147483647 - 1

\* every enumeration of the finite set S as a sequence without repetition
Enumerations(S) ==
    {s \in [1..Cardinality(S) -> S] : \A a, b \in 1..Cardinality(S) : a # b => s[a] # s[b]}

\* lines 830-841 with the comparison of line 833 inverted
RECURSIVE MajorityLoopInverted(_, _, _, _)
MajorityLoopInverted(colTypes, sortedOrder, k, acc) ==
    IF k > Len(sortedOrder) THEN acc
    ELSE LET type == sortedOrder[k]
             frequency == colTypes[type]
             a1 == IF frequency < acc.max
                   THEN [acc EXCEPT !.max = frequency, !.majType = type]
                   ELSE acc
             a2 == IF isTupleType(type) /\ frequency > a1.maxTuple
                   THEN [a1 EXCEPT !.maxTuple = frequency, !.majTupleType = type]
                   ELSE a1
         IN  MajorityLoopInverted(colTypes, sortedOrder, k + 1, a2)

\* lines 830-841: the majority type and the majority tuple type, the first
\* entry of the sorted vector winning among equal frequencies
RECURSIVE MajorityLoop(_, _, _, _)
MajorityLoop(colTypes, sortedOrder, k, acc) ==
    IF k > Len(sortedOrder) THEN acc
    ELSE LET type == sortedOrder[k]
             frequency == colTypes[type]
             a1 == IF frequency > acc.max
                   THEN [acc EXCEPT !.max = frequency, !.majType = type]
                   ELSE acc
             a2 == IF isTupleType(type) /\ frequency > a1.maxTuple
                   THEN [a1 EXCEPT !.maxTuple = frequency, !.majTupleType = type]
                   ELSE a1
         IN  MajorityLoop(colTypes, sortedOrder, k + 1, a2)

\* lines 845-852: fold hasSuperOptionType over the map; <<superTuple, num>>
RECURSIVE SuperTupleLoop(_, _, _, _)
SuperTupleLoop(colTypes, mapOrder, k, acc) ==
    IF k > Len(mapOrder) THEN acc
    ELSE LET r == hasSuperOptionType(mapOrder[k], acc[1], acc[1])
         IN  SuperTupleLoop(colTypes, mapOrder, k + 1,
                            IF r[1] THEN <<r[2], acc[2] + colTypes[mapOrder[k]]>>
                            ELSE acc)

\* the band with its lower limit left out
InBandUpperOnly(count, numSamples, threshold) ==
    count * threshold[2] < threshold[1] * numSamples

\* fraction > 1 - threshold && fraction < threshold, fraction = count/numSamples
InBand(count, numSamples, threshold) ==
    /\ count * threshold[2] > (threshold[2] - threshold[1]) * numSamples
    /\ count * threshold[2] < threshold[1] * numSamples


\* lines 857-863: the option lifting of the majority type
OptionLift(majType, colTypes, numSamples, threshold) ==
    IF /\ majType # Type_UNKNOWN
       /\ majType # Type_NULLVALUE
       /\ Type_NULLVALUE \in DOMAIN colTypes
       /\ InBand(colTypes[Type_NULLVALUE], numSamples, threshold)
    THEN makeOptionType(majType)
    ELSE majType

\* the replacement made with the test of the fraction alone
MajorityTypeBandOnly(colTypes, mapOrder, sortedOrder, numSamples, threshold) ==
    LET maj == MajorityLoop(colTypes, sortedOrder, 1,
                            [max |-> IntMin, majType |-> Type_UNKNOWN,
                             maxTuple |-> IntMin, majTupleType |-> Type_UNKNOWN])
    IN  IF isTupleType(maj.majTupleType)
        THEN LET st == SuperTupleLoop(colTypes, mapOrder, 1, <<maj.majTupleType, 0>>)
                 num == st[2]
             IN  IF /\ InBand(num - colTypes[maj.majTupleType], numSamples, threshold)
                 THEN st[1]
                 ELSE maj.majType
        ELSE maj.majType

\* lines 830-855: the majority type before the option lifting of line 858
MajorityType(colTypes, mapOrder, sortedOrder, numSamples, threshold) ==
    LET maj == MajorityLoop(colTypes, sortedOrder, 1,
                            [max |-> IntMin, majType |-> Type_UNKNOWN,
                             maxTuple |-> IntMin, majTupleType |-> Type_UNKNOWN])
    IN  IF isTupleType(maj.majTupleType)
        THEN LET st == SuperTupleLoop(colTypes, mapOrder, 1, <<maj.majTupleType, 0>>)
                 num == st[2]
             IN  IF /\ num > maj.max
                    /\ InBand(num - colTypes[maj.majTupleType], numSamples, threshold)
                 THEN st[1]
                 ELSE maj.majType
        ELSE maj.majType

buildRowTypeFromSamples(colTypes, mapOrder, sortedOrder, numSamples, threshold) ==
    OptionLift(MajorityType(colTypes, mapOrder, sortedOrder, numSamples, threshold),
               colTypes, numSamples, threshold)

(***************************************************************************)
(* The layout of a row (sizeof(int64_t) is the size of a slot) and the     *)
(* UTF-8 bytes of a string.                                                *)
(***************************************************************************)
SlotSize == 8

Max(a, b) == IF a > b THEN a ELSE b

\* std::string / column name: a sequence of bytes
Str_a == <<97>>
Str_b == <<98>>
Str_c == <<99>>
Str_d == <<100>>

\* PyUnicode_AsUTF8 without the trailing NUL: code points below 128 take one
\* byte, the others (below 2048 in the model) two
RECURSIVE PyUnicode_AsUTF8(_)
PyUnicode_AsUTF8(cps) ==
    IF cps = <<>> THEN <<>>
    ELSE (IF Head(cps) < 128 THEN <<Head(cps)>>
          ELSE <<192 + (Head(cps) \div 64), 128 + (Head(cps) % 64)>>)
         \o PyUnicode_AsUTF8(Tail(cps))

\* PyUnicode_GET_SIZE of a string object: its number of code points
PyUnicode_GET_SIZE(o) == Len(o[2])

\* memcpy(dst, utf8ptr, len + 1): the first len + 1 bytes of the
\* NUL-terminated UTF-8 buffer
CopiedBytes(o) == SubSeq(PyUnicode_AsUTF8(o[2]) \o <<0>>, 1, PyUnicode_GET_SIZE(o) + 1)

\* the value of (double)x, in halves
DoubleOfInt(x) == 2 * x

(***************************************************************************)
(* State.                                                                  *)
(***************************************************************************)
VARIABLES
    options,          \* ContextOptions of the backend context
    \* inferType walking a sample
    mTypes,           \* std::map<python::Type,int> mTypes (line 877)
    numSample,        \* elements of the sample counted so far
    inferPc,          \* "sampling" | "done"
    inferredType,     \* what buildRowTypeFromSamples returned
    \* one call of parallelize
    pc,               \* "idle" | "loop" | "tail" | "returned" | "thrown"
    L,                \* the input list
    columns,          \* std::vector<std::string> columns
    rowType,          \* the type of line 655 / 657, before the dict unpacking
    majType,          \* python::Type majType
    encoder,          \* the encoder parallelize entered, "none" if none
    upcast,           \* the autoUpcast argument of the encoder
    i,                \* loop index of the encoder
    partitions,       \* std::vector<Partition*> partitions
    partition,        \* Partition* partition, the one being written
    ptr,              \* write cursor, bytes after the header word
    numBytesSerialized,
    v,                \* std::vector<Row> v of the slow encoder
    pyErr,            \* a Python error is pending (PyErr_Occurred())
    ds,               \* DataSet* ds, wrapped into the result on return
    log,              \* what the call logged
    warned,           \* the row count of the warning of line 746, 0 if none
    \* the context and the host runtime
    bad,              \* _badParallelizeObjects
    interrupted,      \* the interrupt flag check_interrupted() reads
    refAcquired,      \* per input index: Py_XINCREF calls on the element
    refReleased,      \* per input index: Py_XDECREF calls on the element
    quarantined,      \* history: the input indices appended to bad in this call
    \* csv, text and cp
    fileOp,           \* the file operation in progress, "none" if none
    gil,              \* this thread holds the host runtime's global lock
    backend,          \* what the backend reader did in this call
    gilTrace,         \* history: what the operation did, in order, with the lock
    \* one call of isSubOptionType or hasSuperOptionType
    typePc,           \* "idle", "start", "sub" or "super"
    t1, t2, t3,       \* the types the functions are called with
    super,            \* the out-parameter of hasSuperOptionType
    found,            \* the value hasSuperOptionType returned
    sub               \* the value isSubOptionType returned

inferVars == <<mTypes, numSample, inferPc, inferredType>>
writerVars == <<partitions, partition, ptr, numBytesSerialized>>
refVars == <<refAcquired, refReleased>>
callVars == <<pc, L, columns, rowType, majType, encoder, upcast, i, writerVars, v, pyErr,
              ds, log, warned, bad, interrupted, refVars, quarantined>>
fileVars == <<fileOp, gil, backend, gilTrace>>
typeVars == <<typePc, t1, t2, t3, super, found, sub>>
vars == <<options, inferVars, callVars, fileVars, typeVars>>

\* OPTIONAL_THRESHOLD values, <<numerator, denominator>>
Thetas == {<<5, 8>>, <<3, 4>>, <<7, 8>>, <<1, 1>>}

NoPartition == [capacity |-> 0, numRows |-> 0, rows |-> <<>>, locked |-> FALSE]
NoDataSet == [origin |-> "none", isError |-> FALSE, msg |-> "", partitions |-> <<>>]

\* the backend reader was not called
NotCalled == [kind |-> "none", msg |-> "", ds |-> NoDataSet]

FileIdle ==
    /\ fileOp = "none"
    /\ gil = TRUE
    /\ backend = NotCalled
    /\ gilTrace = <<>>

TypeIdle ==
    /\ typePc = "idle"
    /\ t1 = Type_UNKNOWN
    /\ t2 = Type_UNKNOWN
    /\ t3 = Type_UNKNOWN
    /\ super = Type_UNKNOWN
    /\ found = FALSE
    /\ sub = FALSE

InferIdle ==
    /\ mTypes = <<>>
    /\ numSample = 0
    /\ inferPc = "sampling"
    /\ inferredType = Type_UNKNOWN

CallIdle ==
    /\ pc = "idle"
    /\ L = <<>>
    /\ columns = <<>>
    /\ rowType = Type_UNKNOWN
    /\ majType = Type_UNKNOWN
    /\ encoder = "none"
    /\ upcast = FALSE
    /\ i = 0
    /\ partitions = <<>>
    /\ partition = NoPartition
    /\ ptr = 0
    /\ numBytesSerialized = 0
    /\ v = <<>>
    /\ pyErr = FALSE
    /\ ds = NoDataSet
    /\ log = {}
    /\ warned = 0
    /\ bad = <<>>
    /\ interrupted = FALSE
    /\ refAcquired = <<>>
    /\ refReleased = <<>>
    /\ quarantined = <<>>

(***************************************************************************)
(* inferType (PythonContext.cc:868-895), one action per iteration of the   *)
(* loop over the sample and one for the call of buildRowTypeFromSamples.   *)
(***************************************************************************)
\* lines 884-887: count one more value of type t
CountType(m, t) ==
    IF t \in DOMAIN m THEN [m EXCEPT ![t] = @ + 1] ELSE m @@ (t :> 1)

\* the objects the inference specification samples
InferObjs ==
    { PyLong(2), PyStr(<<97>>), Py_None,
      PyTuple(<<PyLong(2), PyStr(<<97>>)>>), PyTuple(<<Py_None, PyStr(<<97>>)>>) }

\* lines 878-888: classify element o and count its type
InferSample(o) ==
    /\ inferPc = "sampling"
    /\ numSample < MaxSamples
    /\ mTypes' = CountType(mTypes, mapPythonClassToTuplexType(o))
    /\ numSample' = numSample + 1
    /\ UNCHANGED <<options, inferPc, inferredType, callVars>>
    /\ UNCHANGED <<fileVars, typeVars>>

\* line 894
InferBuild ==
    /\ inferPc = "sampling"
    /\ \E mapOrder \in Enumerations(DOMAIN mTypes) :
       \E sortedOrder \in Enumerations(DOMAIN mTypes) :
          inferredType' = buildRowTypeFromSamples(mTypes, mapOrder, sortedOrder, numSample,
                                                  options.OPTIONAL_THRESHOLD)
    /\ inferPc' = "done"
    /\ UNCHANGED <<options, mTypes, numSample, callVars>>
    /\ UNCHANGED <<fileVars, typeVars>>

InitInfer ==
    /\ options \in [AUTO_UPCAST_NUMBERS : {FALSE}, OPTIONAL_THRESHOLD : Thetas,
                    NORMALCASE_THRESHOLD : {<<1, 1>>}]
    /\ InferIdle
    /\ CallIdle
    /\ FileIdle
    /\ TypeIdle

NextInfer ==
    \/ \E o \in InferObjs : InferSample(o)
    \/ InferBuild

SpecInfer == InitInfer /\ [][NextInfer]_vars

(***************************************************************************)
(* isSubOptionType and hasSuperOptionType called on their own: the types   *)
(* are drawn at the start and one action makes each call.                  *)
(***************************************************************************)
\* the types a field is tried with
FieldTypes2 == {Type_I64, Type_STRING, Type_NULLVALUE,
                makeOptionType(Type_I64), makeOptionType(Type_STRING)}

\* tuple types of one and of two fields
TupleTypes2 ==
    {makeTupleType(<<x>>) : x \in FieldTypes2}
      \cup {makeTupleType(<<x, y>>) : x \in FieldTypes2, y \in FieldTypes2}

\* types built from scalars, NULL, Option and Tuple
TypeUniverse ==
    FieldTypes2 \cup TupleTypes2 \cup {makeOptionType(t) : t \in TupleTypes2}
      \cup {makeOptionType(makeOptionType(Type_I64)), makeOptionType(Type_NULLVALUE),
            makeTupleType(<<makeTupleType(<<Type_I64>>)>>),
            makeTupleType(<<makeTupleType(<<Type_NULLVALUE>>)>>)}

\* bool r = isSubOptionType(t1, t2)
IsSubOptionTypeCall ==
    /\ typePc = "start"
    /\ sub' = isSubOptionType(t1, t2)
    /\ typePc' = "sub"
    /\ UNCHANGED <<options, inferVars, callVars, fileVars, t1, t2, t3, super, found>>

\* bool r = hasSuperOptionType(t1, t2, super)
HasSuperOptionTypeCall ==
    /\ typePc = "start"
    /\ LET r == hasSuperOptionType(t1, t2, super)
       IN  /\ found' = r[1]
           /\ super' = r[2]
    /\ typePc' = "super"
    /\ UNCHANGED <<options, inferVars, callVars, fileVars, t1, t2, t3, sub>>

InitTypes ==
    /\ options \in [AUTO_UPCAST_NUMBERS : {FALSE}, OPTIONAL_THRESHOLD : {<<3, 4>>},
                    NORMALCASE_THRESHOLD : {<<1, 1>>}]
    /\ InferIdle
    /\ CallIdle
    /\ FileIdle
    /\ typePc = "start"
    /\ t1 \in TypeUniverse
    /\ t2 \in TypeUniverse
    /\ t3 \in TypeUniverse
    /\ super = Type_PYOBJECT
    /\ found = FALSE
    /\ sub = FALSE

NextTypes ==
    \/ IsSubOptionTypeCall
    \/ HasSuperOptionTypeCall

SpecTypes == InitTypes /\ [][NextTypes]_vars

\* the histogram inferType builds over the whole list (sampleSize(L) = len(L))
RECURSIVE Histogram(_, _)
Histogram(list, k) ==
    IF k = 0 THEN <<>>
    ELSE CountType(Histogram(list, k - 1), mapPythonClassToTuplexType(list[k]))

\* every type inferType(list) can return, over the orders of the histogram
inferType(list, threshold) ==
    LET m == Histogram(list, Len(list))
    IN  { buildRowTypeFromSamples(m, mapOrder, sortedOrder, Len(list), threshold) :
            mapOrder \in Enumerations(DOMAIN m), sortedOrder \in Enumerations(DOMAIN m) }

(***************************************************************************)
(* inferColumnsFromDictObjects (PythonContext.cc:897-1005).                *)
(***************************************************************************)
\* the key object of a dict item is the string with bytes c
IsKey(item, c) == PyUnicode_Check(item[1]) /\ PyUnicode_AsUTF8(item[1][2]) = c
\* PyDict_GetItemString(obj, c) != NULL
DictHas(obj, c) == \E k \in 1..Len(obj[2]) : IsKey(obj[2][k], c)
\* PyDict_GetItemString(obj, c)
DictGet(obj, c) == obj[2][CHOOSE k \in 1..Len(obj[2]) : IsKey(obj[2][k], c)][2]

\* lines 910-936: cols[c], the values found under the string key c
RECURSIVE ColumnValues(_, _, _)
ColumnValues(list, c, k) ==
    IF k = 0 THEN <<>>
    ELSE ColumnValues(list, c, k - 1)
         \o (IF PyDict_Check(list[k]) /\ DictHas(list[k], c)
             THEN <<DictGet(list[k], c)>> ELSE <<>>)

\* lines 973-978: every key of the dict is exactly a str
AllKeysAreStrings(obj) == \A k \in 1..Len(obj[2]) : PyUnicode_Check(obj[2][k][1])

\* variant: a key is normal only above the threshold
inferColumnsFromDictObjectsAboveThreshold(list, normalThreshold, threshold) ==
    LET dictRows == {k \in 1..Len(list) : PyDict_Check(list[k])}
        num_dicts == Cardinality(dictRows)
        keys == UNION { {PyUnicode_AsUTF8(list[k][2][n][1][2]) :
                            n \in {x \in 1..Len(list[k][2]) : PyUnicode_Check(list[k][2][x][1])}}
                        : k \in dictRows }
        counts == [c \in keys |-> Cardinality({k \in dictRows : DictHas(list[k], c)})]
        \* count > normalThreshold * num_dicts
        normal == {c \in keys : counts[c] * normalThreshold[2] > normalThreshold[1] * num_dicts}
        colType(c) == inferType(ColumnValues(list, c, Len(list)), threshold)
        backup == {k \in dictRows : AllKeysAreStrings(list[k])}
    IN  IF normal # {}
        THEN { [ok |-> TRUE, m |-> f] :
                 f \in {g \in [normal -> UNION {colType(c) : c \in normal}] :
                           \A c \in normal : g[c] \in colType(c)} }
        ELSE IF backup = {}
        THEN { [ok |-> FALSE, m |-> <<>>] }
        ELSE LET item == list[CHOOSE k \in backup : \A k2 \in backup : k <= k2]
                 ks == {PyUnicode_AsUTF8(item[2][n][1][2]) : n \in 1..Len(item[2])}
             IN  { [ok |-> TRUE,
                    m |-> [c \in ks |-> mapPythonClassToTuplexType(DictGet(item, c))]] }

\* the results the function can produce: [ok |-> TRUE, m |-> the column
\* types] or [ok |-> FALSE] for the std::runtime_error of line 986
inferColumnsFromDictObjects(list, normalThreshold, threshold) ==
    LET dictRows == {k \in 1..Len(list) : PyDict_Check(list[k])}
        num_dicts == Cardinality(dictRows)
        keys == UNION { {PyUnicode_AsUTF8(list[k][2][n][1][2]) :
                            n \in {x \in 1..Len(list[k][2]) : PyUnicode_Check(list[k][2][x][1])}}
                        : k \in dictRows }
        counts == [c \in keys |-> Cardinality({k \in dictRows : DictHas(list[k], c)})]
        \* line 942: count >= ceil(normalThreshold * num_dicts)
        normal == {c \in keys : counts[c] * normalThreshold[2] >= normalThreshold[1] * num_dicts}
        colType(c) == inferType(ColumnValues(list, c, Len(list)), threshold)
        backup == {k \in dictRows : AllKeysAreStrings(list[k])}
    IN  IF normal # {}
        THEN { [ok |-> TRUE, m |-> f] :
                 f \in {g \in [normal -> UNION {colType(c) : c \in normal}] :
                           \A c \in normal : g[c] \in colType(c)} }
        ELSE IF backup = {}
        THEN { [ok |-> FALSE, m |-> <<>>] }
        ELSE LET item == list[CHOOSE k \in backup : \A k2 \in backup : k <= k2]
                 ks == {PyUnicode_AsUTF8(item[2][n][1][2]) : n \in 1..Len(item[2])}
             IN  { [ok |-> TRUE,
                    m |-> [c \in ks |-> mapPythonClassToTuplexType(DictGet(item, c))]] }

(***************************************************************************)
(* The backend context and the driver (interfaces only in this file).      *)
(***************************************************************************)
\* driver->allocWritablePartition(minRequired, ...), lockWriteRaw() and the
\* *rawPtr = 0 that follows each of them, e.g. lines 50-52
AllocWritablePartition(minRequired) ==
    { [capacity |-> c, numRows |-> 0, rows |-> <<>>, locked |-> TRUE] :
        c \in {minRequired, minRequired + AllocSlack} }

unlockWrite(p) == [p EXCEPT !.locked = FALSE]

fromPartitions(ps) ==
    [origin |-> "fromPartitions", isError |-> FALSE, msg |-> "", partitions |-> ps]

makeError(message) ==
    [origin |-> "makeError", isError |-> TRUE, msg |-> message, partitions |-> <<>>]

\* _context->parallelize(v, columns): the rows of v, in order, in one partition
ContextParallelize(rows) ==
    [origin |-> "parallelize", isError |-> FALSE, msg |-> "",
     partitions |-> IF rows = <<>> THEN <<>>
                    ELSE << [capacity |-> 0, numRows |-> Len(rows), rows |-> rows,
                             locked |-> FALSE] >>]

(***************************************************************************)
(* parallelize (PythonContext.cc:624-764): the choice of the encoder.      *)
(***************************************************************************)
\* lines 659-722: the branch taken for the row type t
ChooseEncoder(t) ==
    IF isDictionaryType(t) /\ t # Type_EMPTYDICT /\ t # Type_GENERICDICT
       /\ keyType(t) = Type_STRING THEN "dict"
    ELSE IF t = Type_BOOLEAN THEN "bool"
    ELSE IF t = Type_I64 THEN "i64"
    ELSE IF t = Type_F64 THEN "f64"
    ELSE IF t = Type_STRING THEN "str"
    ELSE IF isTupleType(t)
         THEN (IF tupleElementsHaveSimpleTypes(t) THEN "tuple" ELSE "slow")
    ELSE IF isDictionaryType(t) \/ t = Type_GENERICDICT THEN "slow"
    ELSE IF isOptionType(t) THEN "slow"
    ELSE IF t = Type_NULLVALUE THEN "slow"
    ELSE IF isListType(t) THEN "slow"
    ELSE IF t = Type_PYOBJECT THEN "slow"
    ELSE "none"

\* const auto allocMinSize = 100 of strDictParallelize
DictAllocMinSize == 100

\* the size of the first partition an encoder asks for
FirstAllocSize(enc) ==
    CASE enc \in {"bool", "i64"} -> Max(SlotSize, allocMinSize)
      [] enc = "dict" -> DictAllocMinSize
      [] OTHER -> allocMinSize

(***************************************************************************)
(* Inputs of parallelize.                                                  *)
(***************************************************************************)
StrA == PyStr(<<97>>)
\* a string of one code point and two UTF-8 bytes
StrU == PyStr(<<233>>)
ScalarObjs == {Py_True, PyLong(2), PyLongTooLarge(9), PyFloat(7), StrA, StrU, Py_None}
TupleObjs ==
    { PyTuple(<<PyLong(2), StrA>>), PyTuple(<<PyLong(2), PyLong(2)>>),
      PyTuple(<<PyLong(2), StrU>>),
      PyTuple(<<PyLongTooLarge(9), PyStr(<<97, 98>>)>>),
      PyTuple(<<Py_None, StrA>>), PyLong(2) }
\* a string of allocMinSize (of strDictParallelize) bytes
StrLong == PyStr([k \in 1..DictAllocMinSize |-> 97])
DictObjs ==
    { PyDict(<< <<PyStr(Str_a), PyLong(2)>>, <<PyStr(Str_b), StrA>> >>),
      PyDict(<< <<PyStr(Str_a), PyLong(2)>>, <<PyStr(Str_b), StrLong>> >>),
      PyDict(<< <<PyStr(Str_a), PyLong(2)>> >>),
      PyDict(<< <<PyStr(Str_c), PyLong(2)>>, <<PyStr(Str_d), PyLong(2)>> >>),
      PyDict(<< <<PyLong(1), PyLong(2)>> >>),
      PyLong(2) }

\* the lists, column lists and decoded schemas (Py_None: no schema) a call
\* is made with
InputFamilies ==
    { [objs |-> ScalarObjs, columns |-> {<<>>, <<Str_a, Str_b>>},
       schemas |-> {Py_None, Type_I64, Type_F64, makeOptionType(Type_I64)}],
      [objs |-> TupleObjs, columns |-> {<<>>, <<Str_a>>},
       schemas |-> {Py_None, makeTupleType(<<Type_I64, Type_STRING>>)}],
      [objs |-> DictObjs, columns |-> {<<>>, <<Str_a, Str_b>>},
       schemas |-> {Py_None, makeDictionaryType(Type_STRING, Type_I64)}] }

ListsOver(objs) == UNION {[1..n -> objs] : n \in 0..MaxLen}

ContextOptionsMenu ==
    { [AUTO_UPCAST_NUMBERS |-> FALSE, OPTIONAL_THRESHOLD |-> <<3, 4>>,
       NORMALCASE_THRESHOLD |-> <<1, 1>>],
      [AUTO_UPCAST_NUMBERS |-> TRUE, OPTIONAL_THRESHOLD |-> <<7, 8>>,
       NORMALCASE_THRESHOLD |-> <<1, 2>>] }

Zeros(n) == [k \in 1..n |-> 0]

(***************************************************************************)
(* parallelize up to the loop of the encoder it enters.                    *)
(***************************************************************************)
\* the prologue of a fast encoder, e.g. lines 38-54
EnterFast(enc, list) ==
    IF Len(list) = 0
    THEN /\ partition' = NoPartition
         /\ ds' = fromPartitions(<<>>)
         /\ pc' = "tail"
    ELSE /\ \E p \in AllocWritablePartition(FirstAllocSize(enc)) : partition' = p
         /\ ds' = NoDataSet
         /\ pc' = "loop"

\* lines 688-722
DispatchOther(list, cols, rt) ==
    LET enc == ChooseEncoder(rt)
    IN  /\ columns' = cols
        /\ majType' = rt
        /\ encoder' = enc
        /\ upcast' = (enc \in {"i64", "f64"} /\ options.AUTO_UPCAST_NUMBERS)
        /\ IF enc = "none"
           THEN /\ partition' = NoPartition
                /\ ds' = makeError("unsupported type")
                /\ pc' = "tail"
                /\ log' = {"unsupported type"}
           ELSE IF enc = "slow"
           THEN /\ partition' = NoPartition
                /\ ds' = NoDataSet
                /\ pc' = "loop"
                /\ log' = {"slow transfer"}
           ELSE /\ EnterFast(enc, list)
                /\ log' = {}

\* lines 660-687
DispatchDict(list, cols, rt) ==
    \E r \in inferColumnsFromDictObjects(list, options.NORMALCASE_THRESHOLD,
                                         options.OPTIONAL_THRESHOLD) :
        IF ~r.ok
        THEN /\ pc' = "thrown"
             /\ columns' = cols
             /\ majType' = rt
             /\ encoder' = "none"
             /\ partition' = NoPartition
             /\ ds' = NoDataSet
             /\ log' = {}
             /\ upcast' = FALSE
        ELSE \E order \in Enumerations(DOMAIN r.m) :
                LET cols2 == IF cols = <<>> THEN order ELSE cols
                    types == [k \in 1..Len(cols2) |->
                                IF cols2[k] \in DOMAIN r.m THEN r.m[cols2[k]]
                                ELSE Type_PYOBJECT]
                IN  /\ columns' = cols2
                    /\ majType' = makeTupleType(types)
                    /\ encoder' = "dict"
                    /\ upcast' = FALSE
                    /\ log' = {}
                    /\ EnterFast("dict", list)

ParallelizeBegin ==
    /\ pc = "idle"
    /\ \E fam \in InputFamilies :
       \E list \in ListsOver(fam.objs) :
       \E cols \in fam.columns :
       \E schema \in fam.schemas :
       \E rt \in (IF schema = Py_None THEN inferType(list, options.OPTIONAL_THRESHOLD)
                  ELSE {schema}) :
          /\ L' = list
          /\ rowType' = rt
          /\ IF ChooseEncoder(rt) = "dict" THEN DispatchDict(list, cols, rt)
             ELSE DispatchOther(list, cols, rt)
          /\ refAcquired' = Zeros(Len(list))
          /\ refReleased' = Zeros(Len(list))
    /\ i' = 0
    /\ partitions' = <<>>
    /\ ptr' = 0
    /\ numBytesSerialized' = 0
    /\ v' = <<>>
    /\ pyErr' = FALSE
    /\ warned' = 0
    /\ bad' = <<>>
    /\ quarantined' = <<>>
    /\ UNCHANGED <<options, inferVars, interrupted>>
    /\ UNCHANGED <<fileVars, typeVars>>

(***************************************************************************)
(* The partition writer the encoders share.                                *)
(***************************************************************************)
\* a row in the payload of a partition: src is the input index it was
\* encoded from, off the cursor it was written at, len its requiredBytes,
\* slots its 8-byte slots and tail its variable-length bytes
Row(src, off, len, slots, tail) ==
    [src |-> src, off |-> off, len |-> len, slots |-> slots, tail |-> tail]

\* the capacity check with the finished partition put in front of the list
EnsureCapacityPushFront(requiredBytes, allocSize) ==
    IF partition.capacity < numBytesSerialized + requiredBytes
    THEN { [partitions |-> <<unlockWrite(partition)>> \o partitions,
            partition |-> p, ptr |-> 0, numBytesSerialized |-> 0] :
              p \in AllocWritablePartition(allocSize) }
    ELSE { [partitions |-> partitions, partition |-> partition, ptr |-> ptr,
            numBytesSerialized |-> numBytesSerialized] }

\* "check capacity and realloc if necessary get a new partition", e.g. lines
\* 59-67: the writer state after the check, for each partition the driver
\* may hand out
EnsureCapacity(requiredBytes, allocSize) ==
    IF partition.capacity < numBytesSerialized + requiredBytes
    THEN { [partitions |-> Append(partitions, unlockWrite(partition)),
            partition |-> p, ptr |-> 0, numBytesSerialized |-> 0] :
              p \in AllocWritablePartition(allocSize) }
    ELSE { [partitions |-> partitions, partition |-> partition, ptr |-> ptr,
            numBytesSerialized |-> numBytesSerialized] }

\* the row counter left as it is
IncRowCounterForgotten(p) == p

\* *rawPtr = *rawPtr + 1
IncRowCounter(p) == [p EXCEPT !.numRows = @ + 1]

\* the bytes of a row written at the cursor
WriteRow(p, row) == [p EXCEPT !.rows = Append(@, row)]

\* a row written and counted, e.g. lines 91-94, in writer state w
Accept(w, row) ==
    /\ partitions' = w.partitions
    /\ partition' = IncRowCounter(WriteRow(w.partition, row))
    /\ ptr' = w.ptr + row.len
    /\ numBytesSerialized' = w.numBytesSerialized + row.len
    /\ UNCHANGED <<bad, quarantined>>

\* _badParallelizeObjects.emplace_back(std::make_tuple(i, obj)), n times
RECURSIVE Emplaced(_, _, _)
Emplaced(list, entry, n) ==
    IF n = 0 THEN list ELSE Emplaced(Append(list, entry), entry, n - 1)

Reject(w, obj, n) ==
    /\ partitions' = w.partitions
    /\ partition' = w.partition
    /\ ptr' = w.ptr
    /\ numBytesSerialized' = w.numBytesSerialized
    /\ bad' = Emplaced(bad, <<i, obj>>, n)
    /\ quarantined' = Emplaced(quarantined, i, n)

\* what a step of a fast encoder leaves alone
FastFrame ==
    /\ i' = i + 1
    /\ UNCHANGED <<options, inferVars, pc, L, columns, rowType, majType, encoder, upcast,
                   v, ds, log, warned, interrupted, refVars>>
    /\ UNCHANGED <<fileVars, typeVars>>

InLoop(enc) == pc = "loop" /\ encoder = enc /\ i < Len(L)

(***************************************************************************)
(* The scalar fast encoders, one action per loop iteration.                *)
(***************************************************************************)
\* fastBoolParallelize, lines 341-364
FastBoolStep ==
    /\ InLoop("bool")
    /\ \E w \in EnsureCapacity(SlotSize, Max(SlotSize, allocMinSize)) :
          LET obj == L[i + 1]
          IN  IF PyBool_Check(obj)
              THEN Accept(w, Row(i, w.ptr, SlotSize, <<obj[2]>>, <<>>))
              ELSE Reject(w, obj, 1)
    /\ pyErr' = pyErr
    /\ FastFrame

\* fastI64Parallelize with the upcast of booleans not asking for autoUpcast
FastI64StepAlwaysUpcast ==
    /\ InLoop("i64")
    /\ \E w \in EnsureCapacity(SlotSize, Max(SlotSize, allocMinSize)) :
          LET obj == L[i + 1]
          IN  IF PyLong_CheckExact(obj)
              THEN IF obj[3]
                   THEN Accept(w, Row(i, w.ptr, SlotSize, <<obj[2]>>, <<>>))
                   ELSE Reject(w, obj, 1)
              ELSE IF PyBool_Check(obj)
                   THEN Accept(w, Row(i, w.ptr, SlotSize, <<obj[2]>>, <<>>))
                   ELSE Reject(w, obj, 1)
    /\ pyErr' = FALSE
    /\ FastFrame

\* fastI64Parallelize, lines 125-161
FastI64Step ==
    /\ InLoop("i64")
    /\ \E w \in EnsureCapacity(SlotSize, Max(SlotSize, allocMinSize)) :
          LET obj == L[i + 1]
          IN  IF PyLong_CheckExact(obj)
              THEN IF obj[3]
                   THEN Accept(w, Row(i, w.ptr, SlotSize, <<obj[2]>>, <<>>))
                   ELSE Reject(w, obj, 1)      \* PyErr_Occurred, PyErr_Clear
              ELSE IF upcast /\ PyBool_Check(obj)
                   THEN Accept(w, Row(i, w.ptr, SlotSize, <<obj[2]>>, <<>>))
                   ELSE Reject(w, obj, 1)
    /\ pyErr' = FALSE
    /\ FastFrame

\* fastF64Parallelize, lines 55-95
FastF64Step ==
    /\ InLoop("f64")
    /\ \E w \in EnsureCapacity(SlotSize, Max(SlotSize, allocMinSize)) :
          LET obj == L[i + 1]
          IN  IF PyFloat_CheckExact(obj)
              THEN Accept(w, Row(i, w.ptr, SlotSize, <<obj[2]>>, <<>>))
              ELSE IF upcast /\ (PyBool_Check(obj) \/ PyLong_CheckExact(obj))
                   THEN IF PyBool_Check(obj) \/ obj[3]
                        THEN Accept(w, Row(i, w.ptr, SlotSize, <<DoubleOfInt(obj[2])>>, <<>>))
                        ELSE Reject(w, obj, 1)  \* PyErr_Occurred, PyErr_Clear
                   ELSE Reject(w, obj, 1)
    /\ pyErr' = FALSE
    /\ FastFrame

\* fastStrParallelize, lines 394-438
FastStrStep ==
    /\ InLoop("str")
    /\ LET obj == L[i + 1]
           len == PyUnicode_GET_SIZE(obj)
           requiredBytes == SlotSize * 2 + len + 1
           varFieldSize == len + 1
           varLenOffset == 2 * SlotSize
       IN  IF PyUnicode_Check(obj)
           THEN \E w \in EnsureCapacity(requiredBytes, Max(allocMinSize, requiredBytes)) :
                   Accept(w, Row(i, w.ptr, requiredBytes,
                                 << <<varLenOffset, varFieldSize>>, varFieldSize >>,
                                 CopiedBytes(obj)))
           ELSE Reject([partitions |-> partitions, partition |-> partition, ptr |-> ptr,
                        numBytesSerialized |-> numBytesSerialized], obj, 1)
    /\ pyErr' = pyErr
    /\ FastFrame

(***************************************************************************)
(* fastMixedSimpleTypeTupleTransfer (PythonContext.cc:170-318).            *)
(***************************************************************************)
\* makeTypeStr: TRUE iff the tuple type has a string field
HasVarLenField(t) == \E j \in 1..Len(parameters(t)) : parameters(t)[j] = Type_STRING

\* PyUnicode_GET_SIZE applied to an object that is no string (line 216
\* applies it before the field is type-checked) reads whatever the object
\* holds at that place: any of these sizes
GarbageSizes == {0, 3}

\* lines 212-217: the values requiredBytes can take for the tuple obj
RECURSIVE RequiredBytesFrom(_, _, _)
RequiredBytesFrom(params, elems, j) ==
    IF j > Len(params) THEN {0}
    ELSE LET rest == RequiredBytesFrom(params, elems, j + 1)
             here == IF params[j] # Type_STRING THEN {0}
                     ELSE IF PyUnicode_Check(elems[j])
                          THEN {PyUnicode_GET_SIZE(elems[j]) + 1}
                          ELSE {g + 1 : g \in GarbageSizes}
         IN  {a + c : a \in here, c \in rest}

\* lines 233-282: the fields from field j on (j counts from 1), acc holding
\* what fields 1..j-1 wrote and advance how far they moved ptr; ok is FALSE
\* when a field took goto bad_element
RECURSIVE TupleFields(_, _, _, _)
TupleFields(params, elems, j, acc) ==
    IF j > Len(params) THEN acc
    ELSE LET el == elems[j]
             numTupleElements == Len(params)
         IN  CASE params[j] = Type_BOOLEAN ->
                    IF ~PyBool_Check(el) THEN [acc EXCEPT !.ok = FALSE]
                    ELSE TupleFields(params, elems, j + 1,
                                     [acc EXCEPT !.slots = Append(@, el[2]),
                                                 !.advance = @ + SlotSize])
               [] params[j] = Type_I64 ->
                    IF ~PyLong_CheckExact(el) THEN [acc EXCEPT !.ok = FALSE]
                    ELSE TupleFields(params, elems, j + 1,
                                     \* PyLong_AsLongLong: -1 and an error set on overflow
                                     [acc EXCEPT !.slots = Append(@, IF el[3] THEN el[2] ELSE -1),
                                                 !.err = @ \/ ~el[3],
                                                 !.advance = @ + SlotSize])
               [] params[j] = Type_F64 ->
                    IF ~PyFloat_CheckExact(el) THEN [acc EXCEPT !.ok = FALSE]
                    ELSE TupleFields(params, elems, j + 1,
                                     [acc EXCEPT !.slots = Append(@, el[2]),
                                                 !.advance = @ + SlotSize])
               [] params[j] = Type_STRING ->
                    IF ~PyUnicode_Check(el) THEN [acc EXCEPT !.ok = FALSE]
                    ELSE LET len == PyUnicode_GET_SIZE(el)
                             varFieldSize == len + 1
                             \* (numTupleElements + 1 - j) with j counted from 0
                             varLenOffset == (numTupleElements + 1 - (j - 1)) * SlotSize
                                             + acc.rowVarFieldSizes
                         IN  TupleFields(params, elems, j + 1,
                                [acc EXCEPT !.slots = Append(@, <<varLenOffset, varFieldSize>>),
                                            !.tail = @ \o CopiedBytes(el),
                                            !.rowVarFieldSizes = @ + varFieldSize,
                                            !.advance = @ + SlotSize])
               [] OTHER -> TupleFields(params, elems, j + 1, acc)

NoFields ==
    [ok |-> TRUE, slots |-> <<>>, tail |-> <<>>, rowVarFieldSizes |-> 0, err |-> FALSE,
     advance |-> 0]

CurrentWriter ==
    [partitions |-> partitions, partition |-> partition, ptr |-> ptr,
     numBytesSerialized |-> numBytesSerialized]

\* bad_element with the cursor left where the failing field found it
bad_elementCursorKept(w, rowStartPtr, cursor, obj) ==
    Reject([w EXCEPT !.ptr = cursor], obj, 1)

\* lines 296-299, the label bad_element: ptr = rowStartPtr and the
\* quarantine entry, cursor being ptr as the failing field found it
bad_element(w, rowStartPtr, cursor, obj) ==
    Reject([w EXCEPT !.ptr = rowStartPtr], obj, 1)

\* lines 202-309
FastTupleStep ==
    /\ InLoop("tuple")
    /\ LET obj == L[i + 1]
           params == parameters(majType)
           numTupleElements == Len(params)
           varLenField == HasVarLenField(majType)
           baseRequiredBytes == (numTupleElements + (IF varLenField THEN 1 ELSE 0)) * SlotSize
       IN  IF PyTuple_Check(obj) /\ Len(obj[2]) = numTupleElements
           THEN \E extra \in RequiredBytesFrom(params, obj[2], 1) :
                   LET requiredBytes == baseRequiredBytes + extra
                       r == TupleFields(params, obj[2], 1, NoFields)
                   IN  /\ \E w \in EnsureCapacity(requiredBytes,
                                                  Max(allocMinSize, requiredBytes)) :
                             IF r.ok
                             THEN Accept(w, Row(i, w.ptr, requiredBytes,
                                                r.slots \o (IF varLenField
                                                            THEN <<r.rowVarFieldSizes>>
                                                            ELSE <<>>),
                                                r.tail))
                             ELSE bad_element(w, w.ptr, w.ptr + r.advance, obj)
                       /\ pyErr' = (pyErr \/ r.err)
           ELSE /\ Reject(CurrentWriter, obj, 1)
                /\ pyErr' = pyErr
    /\ FastFrame

(***************************************************************************)
(* strDictParallelize (PythonContext.cc:521-622).                          *)
(***************************************************************************)
\* lines 561-579: the values of obj under the columns; the columns it lacks
RECURSIVE DictProjection(_, _, _)
DictProjection(obj, cols, j) ==
    IF j > Len(cols) THEN <<>>
    ELSE <<IF DictHas(obj, cols[j]) THEN DictGet(obj, cols[j]) ELSE Py_None>>
         \o DictProjection(obj, cols, j + 1)

MissingColumns(obj, cols) == Cardinality({j \in 1..Len(cols) : ~DictHas(obj, cols[j])})

\* Row::serializeToMemory and Row::serializedLength of python::pythonToRow(tupleObj):
\* one slot per field, a descriptor for a string, then the slot with the
\* total variable-length size and the string bytes
RECURSIVE SerializeRow(_, _, _, _)
SerializeRow(elems, numFields, j, acc) ==
    IF j > Len(elems) THEN acc
    ELSE LET el == elems[j]
         IN  IF PyUnicode_Check(el)
             THEN LET bytes == PyUnicode_AsUTF8(el[2]) \o <<0>>
                  IN  SerializeRow(elems, numFields, j + 1,
                         [acc EXCEPT !.slots = Append(@, <<(numFields + 1 - (j - 1)) * SlotSize
                                                            + acc.rowVarFieldSizes,
                                                            Len(bytes)>>),
                                     !.tail = @ \o bytes,
                                     !.rowVarFieldSizes = @ + Len(bytes)])
             ELSE SerializeRow(elems, numFields, j + 1,
                         [acc EXCEPT !.slots = Append(@, IF Len(el) >= 2 THEN el[2] ELSE 0)])

\* the capacity check made with the serialized length of the row
DictCapacityCheckByRowLength(requiredBytes) ==
    EnsureCapacity(requiredBytes, Max(DictAllocMinSize, requiredBytes))

\* lines 597-606: the capacity check of strDictParallelize, made with
\* allocMinSize whatever requiredBytes is
DictCapacityCheck(requiredBytes) ==
    EnsureCapacity(DictAllocMinSize, DictAllocMinSize)

\* lines 547-615
StrDictStep ==
    /\ InLoop("dict")
    /\ LET obj == L[i + 1]
           params == parameters(majType)
       IN  IF ~PyDict_Check(obj)
           THEN /\ UNCHANGED <<writerVars, bad, quarantined>>
           ELSE IF Len(obj[2]) # Len(params)
           THEN Reject(CurrentWriter, obj, 1)
           ELSE IF MissingColumns(obj, columns) > 0
           THEN Reject(CurrentWriter, obj, MissingColumns(obj, columns))
           ELSE LET tupleObj == PyTuple(DictProjection(obj, columns, 1))
                    r == SerializeRow(tupleObj[2], Len(params), 1, NoFields)
                    hasVar == \E j \in 1..Len(tupleObj[2]) : PyUnicode_Check(tupleObj[2][j])
                    requiredBytes == (Len(params) + (IF hasVar THEN 1 ELSE 0)) * SlotSize
                                     + r.rowVarFieldSizes
                IN  IF mapPythonClassToTuplexType(tupleObj) # majType
                    THEN Reject(CurrentWriter, obj, 1)
                    ELSE \E w \in DictCapacityCheck(requiredBytes) :
                            Accept(w, Row(i, w.ptr, requiredBytes,
                                          r.slots \o (IF hasVar THEN <<r.rowVarFieldSizes>>
                                                      ELSE <<>>),
                                          r.tail))
    /\ pyErr' = pyErr
    /\ FastFrame

\* the epilogue leaving out a last partition without rows
FastReturnSkipsEmpty ==
    /\ pc = "loop"
    /\ encoder \in {"bool", "i64", "f64", "str", "tuple", "dict"}
    /\ i = Len(L)
    /\ partitions' = (IF partition.numRows = 0 THEN partitions
                      ELSE Append(partitions, unlockWrite(partition)))
    /\ partition' = NoPartition
    /\ ds' = fromPartitions(partitions')
    /\ pc' = "tail"
    /\ UNCHANGED <<options, inferVars, L, columns, rowType, majType, encoder, upcast, i, ptr,
                   numBytesSerialized, v, pyErr, log, warned, bad, interrupted, refVars,
                   quarantined>>
    /\ UNCHANGED <<fileVars, typeVars>>

\* the epilogue of the fast encoders and of strDictParallelize, e.g. lines
\* 97-101: unlock and push the last partition, hand the list to the backend
FastReturn ==
    /\ pc = "loop"
    /\ encoder \in {"bool", "i64", "f64", "str", "tuple", "dict"}
    /\ i = Len(L)
    /\ partitions' = Append(partitions, unlockWrite(partition))
    /\ partition' = NoPartition
    /\ ds' = fromPartitions(partitions')
    /\ pc' = "tail"
    /\ UNCHANGED <<options, inferVars, L, columns, rowType, majType, encoder, upcast, i, ptr,
                   numBytesSerialized, v, pyErr, log, warned, bad, interrupted, refVars,
                   quarantined>>
    /\ UNCHANGED <<fileVars, typeVars>>

(***************************************************************************)
(* parallelizeAnyType (PythonContext.cc:464-519), the slow encoder.        *)
(***************************************************************************)
\* lines 493-495 left out: the quarantined objects are not released
ReleasedNone(entries, released) == released

\* lines 493-495: Py_XDECREF of the object of every entry
RECURSIVE Released(_, _)
Released(entries, released) ==
    IF entries = <<>> THEN released
    ELSE Released(Tail(entries),
                  [released EXCEPT ![Head(entries)[1] + 1] = @ + 1])

\* lines 482-515: the poll of the interrupt flag, then one element
SlowStep ==
    /\ InLoop("slow")
    /\ IF interrupted
       THEN /\ refReleased' = Released(bad, refReleased)
            /\ bad' = <<>>
            /\ v' = <<>>
            /\ ds' = makeError("interrupted transfer")
            /\ log' = log \cup {"interrupted"}
            /\ pc' = "tail"
            /\ UNCHANGED <<i, refAcquired, quarantined>>
       ELSE LET item == L[i + 1]
                t == mapPythonClassToTuplexType(item)
            IN  /\ refAcquired' = [refAcquired EXCEPT ![i + 1] = @ + 1]
                /\ IF isSubOptionType(t, majType)
                   THEN /\ v' = Append(v, Row(i, 0, 0, <<item>>, <<>>))
                        /\ UNCHANGED <<bad, quarantined>>
                   ELSE /\ bad' = Append(bad, <<i, item>>)
                        /\ quarantined' = Append(quarantined, i)
                        /\ v' = v
                /\ i' = i + 1
                /\ UNCHANGED <<refReleased, ds, log, pc>>
    /\ UNCHANGED <<options, inferVars, L, columns, rowType, majType, encoder, upcast,
                   writerVars, pyErr, warned, interrupted>>
    /\ UNCHANGED <<fileVars, typeVars>>

\* line 518
SlowReturn ==
    /\ pc = "loop"
    /\ encoder = "slow"
    /\ i = Len(L)
    /\ ds' = ContextParallelize(v)
    /\ pc' = "tail"
    /\ UNCHANGED <<options, inferVars, L, columns, rowType, majType, encoder, upcast, i,
                   writerVars, v, pyErr, log, warned, bad, interrupted, refVars, quarantined>>
    /\ UNCHANGED <<fileVars, typeVars>>

(***************************************************************************)
(* parallelize after the encoder returned (lines 724-763).                 *)
(***************************************************************************)
\* lines 744-754 without the clear of line 753
ClearedBadKept(entries) == entries

\* line 753
ClearedBad(entries) == <<>>

ParallelizeEnd ==
    /\ pc = "tail"
    /\ log' = log \cup (IF majType = Type_UNKNOWN THEN {"unknown type"} ELSE {})
                  \cup (IF bad # <<>> THEN {"bad rows"} ELSE {})
    /\ warned' = Len(bad)
    /\ bad' = (IF bad # <<>> THEN ClearedBad(bad) ELSE bad)
    /\ pc' = "returned"
    /\ UNCHANGED <<options, inferVars, L, columns, rowType, majType, encoder, upcast, i,
                   writerVars, v, pyErr, ds, interrupted, refVars, quarantined>>
    /\ UNCHANGED <<fileVars, typeVars>>

(***************************************************************************)
(* The host runtime: a signal sets the interrupt flag while the slow       *)
(* encoder runs (one that arrives elsewhere is seen no earlier than its    *)
(* next poll), and the host's handler clears it between calls.             *)
(***************************************************************************)
Interrupt ==
    /\ pc = "loop"
    /\ encoder = "slow"
    /\ ~interrupted
    /\ interrupted' = TRUE
    /\ UNCHANGED <<options, inferVars, pc, L, columns, rowType, majType, encoder, upcast, i,
                   writerVars, v, pyErr, ds, log, warned, bad, refVars, quarantined>>
    /\ UNCHANGED <<fileVars, typeVars>>

HostHandlesSignal ==
    /\ pc \in {"idle", "returned", "thrown"}
    /\ interrupted
    /\ interrupted' = FALSE
    /\ UNCHANGED <<options, inferVars, pc, L, columns, rowType, majType, encoder, upcast, i,
                   writerVars, v, pyErr, ds, log, warned, bad, refVars, quarantined>>
    /\ UNCHANGED <<fileVars, typeVars>>

(***************************************************************************)
(* csv (PythonContext.cc:1007-1069), text (1071-1106) and cp (1358-1360).  *)
(***************************************************************************)
\* what _context->csv or _context->text can do: return a dataset (one of its
\* own error datasets included), throw a std::exception with the message
\* msg, or throw something else
ReaderDataSets ==
    { [origin |-> "reader", isError |-> FALSE, msg |-> "", partitions |-> <<>>],
      [origin |-> "reader", isError |-> TRUE, msg |-> "no files", partitions |-> <<>>] }

BackendOutcomes ==
    { [kind |-> "returned", msg |-> "", ds |-> d] : d \in ReaderDataSets }
    \cup { [kind |-> "std", msg |-> m, ds |-> NoDataSet] : m \in {"io error", ""} }
    \cup { [kind |-> "other", msg |-> "", ds |-> NoDataSet] }

\* err_message after the try block, lines 1045-1056
ErrMessage(outcome) ==
    CASE outcome.kind = "std" -> outcome.msg
      [] outcome.kind = "other" -> "unknown C++ exception occurred, please change type."
      [] OTHER -> ""

\* the test of lines 1061-1065 without "!ds"
WrappedOrErrorMessageOnly(d, err_message) ==
    IF err_message # "" THEN makeError(err_message) ELSE d

\* lines 1061-1065: "nullptr? then error dataset!"; NoDataSet is the nullptr
WrappedOrError(d, err_message) ==
    IF d = NoDataSet \/ err_message # "" THEN makeError(err_message) ELSE d

\* what the file operations leave alone
FileFrame ==
    UNCHANGED <<options, inferVars, L, columns, rowType, majType, encoder, upcast, i,
                writerVars, v, pyErr, warned, bad, refVars, quarantined, typeVars>>

\* the entry with the signal check skipped
FileEnterUnchecked(op) ==
    /\ pc = "idle"
    /\ fileOp' = op
    /\ gil' = FALSE
    /\ gilTrace' = <<"extract", "unlockGIL">>
    /\ pc' = "unlocked"
    /\ UNCHANGED <<ds, interrupted, log, backend>>
    /\ FileFrame

\* check_and_forward_signals(true): whether a signal is pending; it hands a
\* pending one to the host's handlers, which leave the flag set or cleared
check_and_forward_signals(flag) ==
    [pending |-> flag, after |-> IF flag THEN BOOLEAN ELSE {FALSE}]

\* lines 1015-1043 and 1072-1082: the signal check, then the arguments are
\* extracted and the lock is released
FileEnter(op) ==
    /\ pc = "idle"
    /\ fileOp' = op
    /\ IF check_and_forward_signals(interrupted).pending
       THEN /\ ds' = makeError("job aborted via signal")
            /\ pc' = "returned"
            /\ interrupted' \in check_and_forward_signals(interrupted).after
            /\ UNCHANGED <<gil, gilTrace>>
       ELSE /\ gil' = FALSE
            /\ gilTrace' = <<"extract", "unlockGIL">>
            /\ pc' = "unlocked"
            /\ UNCHANGED <<ds, interrupted>>
    /\ UNCHANGED <<log, backend>>
    /\ FileFrame

\* lines 1044-1056 and 1083-1093: the try block around the backend reader
FileRead(op) ==
    /\ pc = "unlocked"
    /\ fileOp = op
    /\ \E outcome \in BackendOutcomes :
          /\ backend' = outcome
          /\ ds' = outcome.ds
          /\ log' = log \cup (IF outcome.kind = "returned" THEN {}
                              ELSE {ErrMessage(outcome)})
    /\ gilTrace' = Append(gilTrace, "reader")
    /\ pc' = "called"
    /\ UNCHANGED <<fileOp, gil, interrupted>>
    /\ FileFrame

\* the return taking the lock again only when the reader returned
FileReturnLockOnSuccess(op) ==
    /\ pc = "called"
    /\ fileOp = op
    /\ gil' = (backend.kind = "returned")
    /\ gilTrace' = (IF backend.kind = "returned" THEN Append(gilTrace, "lockGIL")
                    ELSE gilTrace)
    /\ ds' = WrappedOrError(ds, ErrMessage(backend))
    /\ pc' = "returned"
    /\ UNCHANGED <<fileOp, backend, interrupted, log>>
    /\ FileFrame

\* lines 1058-1068 and 1095-1105
FileReturn(op) ==
    /\ pc = "called"
    /\ fileOp = op
    /\ gil' = TRUE
    /\ gilTrace' = Append(gilTrace, "lockGIL")
    /\ ds' = WrappedOrError(ds, ErrMessage(backend))
    /\ pc' = "returned"
    /\ UNCHANGED <<fileOp, backend, interrupted, log>>
    /\ FileFrame

CsvEnter == FileEnter("csv")
CsvRead == FileRead("csv")
CsvReturn == FileReturn("csv")
TextEnter == FileEnter("text")
TextRead == FileRead("text")
TextReturn == FileReturn("text")

\* lines 1358-1360: throw std::runtime_error("not yet supported")
Cp ==
    /\ pc = "idle"
    /\ fileOp' = "cp"
    /\ pc' = "thrown"
    /\ log' = {"not yet supported"}
    /\ UNCHANGED <<ds, interrupted, gil, backend, gilTrace>>
    /\ FileFrame

(***************************************************************************)
(* The constructor, the destructor, ls and rm (lines 1145-1211 and         *)
(* 1342-1371): unlockGIL, a call into the backend or the file system,      *)
(* lockGIL, with no try block around the call.                             *)
(***************************************************************************)
\* what the wrapped call can do: return, or throw (co.RUNTIME_LIBRARY, new
\* Context, VirtualFileSystem::globAll and ::remove); delete _context runs a
\* destructor, which does not throw
WrappedOutcomes(op) ==
    IF op = "dtor" THEN {[kind |-> "returned", msg |-> "", ds |-> NoDataSet]}
    ELSE {[kind |-> "returned", msg |-> "", ds |-> NoDataSet],
          [kind |-> "std", msg |-> "io error", ds |-> NoDataSet]}

\* python::unlockGIL() at lines 1176, 1189, 1203, 1344, 1364
GilEnter(op) ==
    /\ pc = "idle"
    /\ fileOp' = op
    /\ gil' = FALSE
    /\ gilTrace' = <<"unlockGIL">>
    /\ pc' = "unlocked"
    /\ UNCHANGED <<ds, interrupted, log, backend>>
    /\ FileFrame

\* the wrapped call (lines 1177, 1190-1192, 1205-1206, 1345, 1365): when it
\* throws, the exception leaves the operation right there
GilCall(op) ==
    /\ pc = "unlocked"
    /\ fileOp = op
    /\ \E outcome \in WrappedOutcomes(op) :
          /\ backend' = outcome
          /\ pc' = (IF outcome.kind = "returned" THEN "called" ELSE "thrown")
          /\ log' = log \cup (IF outcome.kind = "returned" THEN {} ELSE {outcome.msg})
    /\ gilTrace' = Append(gilTrace, "call")
    /\ UNCHANGED <<fileOp, gil, ds, interrupted>>
    /\ FileFrame

\* python::lockGIL() and what follows it (lines 1178, 1194, 1209, 1346, 1366);
\* after its first lockGIL the constructor throws PythonException when the
\* runtime library was not found (lines 1179-1181) and goes on to its second
\* unlockGIL (line 1189) otherwise
GilReturn(op) ==
    /\ pc = "called"
    /\ fileOp = op
    /\ IF op = "ctor" /\ Len(gilTrace) = 2
       THEN \E uriValid \in BOOLEAN :
               IF uriValid
               THEN /\ gil' = FALSE
                    /\ gilTrace' = gilTrace \o <<"lockGIL", "unlockGIL">>
                    /\ pc' = "unlocked"
                    /\ log' = log
               ELSE /\ gil' = TRUE
                    /\ gilTrace' = Append(gilTrace, "lockGIL")
                    /\ pc' = "thrown"
                    /\ log' = log \cup {"Could not find runtime library"}
       ELSE /\ gil' = TRUE
            /\ gilTrace' = Append(gilTrace, "lockGIL")
            /\ pc' = "returned"
            /\ log' = log
    /\ UNCHANGED <<fileOp, backend, ds, interrupted>>
    /\ FileFrame

CtorEnter == GilEnter("ctor")
CtorCall == GilCall("ctor")
CtorReturn == GilReturn("ctor")
DtorEnter == GilEnter("dtor")
DtorCall == GilCall("dtor")
DtorReturn == GilReturn("dtor")
LsEnter == GilEnter("ls")
LsCall == GilCall("ls")
LsReturn == GilReturn("ls")
RmEnter == GilEnter("rm")
RmCall == GilCall("rm")
RmReturn == GilReturn("rm")

\* return pds, or the exception leaving parallelize: the call is over
\* and the context waits for the next one; a thread that comes back to the
\* interpreter without the lock makes no further call
CallOver ==
    /\ pc \in {"returned", "thrown"}
    /\ gil
    /\ pc' = "idle"
    /\ L' = <<>>
    /\ columns' = <<>>
    /\ rowType' = Type_UNKNOWN
    /\ majType' = Type_UNKNOWN
    /\ encoder' = "none"
    /\ upcast' = FALSE
    /\ i' = 0
    /\ partitions' = <<>>
    /\ partition' = NoPartition
    /\ ptr' = 0
    /\ numBytesSerialized' = 0
    /\ v' = <<>>
    /\ pyErr' = FALSE
    /\ ds' = NoDataSet
    /\ log' = {}
    /\ warned' = 0
    /\ refAcquired' = <<>>
    /\ refReleased' = <<>>
    /\ quarantined' = <<>>
    /\ fileOp' = "none"
    /\ backend' = NotCalled
    /\ gilTrace' = <<>>
    /\ UNCHANGED <<options, inferVars, bad, interrupted, gil, typeVars>>

Init ==
    /\ options \in ContextOptionsMenu
    /\ InferIdle
    /\ CallIdle
    /\ FileIdle
    /\ TypeIdle

Next ==
    \/ ParallelizeBegin
    \/ FastBoolStep
    \/ FastI64Step
    \/ FastF64Step
    \/ FastStrStep
    \/ FastTupleStep
    \/ StrDictStep
    \/ FastReturn
    \/ SlowStep
    \/ SlowReturn
    \/ ParallelizeEnd
    \/ CsvEnter
    \/ CsvRead
    \/ CsvReturn
    \/ TextEnter
    \/ TextRead
    \/ TextReturn
    \/ Cp
    \/ CtorEnter
    \/ CtorCall
    \/ CtorReturn
    \/ DtorEnter
    \/ DtorCall
    \/ DtorReturn
    \/ LsEnter
    \/ LsCall
    \/ LsReturn
    \/ RmEnter
    \/ RmCall
    \/ RmReturn
    \/ CallOver
    \/ Interrupt
    \/ HostHandlesSignal

Spec == Init /\ [][Next]_vars

(***************************************************************************)
(* Claims about the transfer.                                              *)
(***************************************************************************)
RECURSIVE TotalRows(_)
TotalRows(ps) == IF ps = <<>> THEN 0 ELSE Head(ps).numRows + TotalRows(Tail(ps))

RECURSIVE AllRows(_)
AllRows(ps) == IF ps = <<>> THEN <<>> ELSE Head(ps).rows \o AllRows(Tail(ps))

\* the partitions written so far, the one being written last
Written == partitions \o (IF partition = NoPartition THEN <<>> ELSE <<partition>>)

EncoderReturned == pc = "tail" /\ encoder # "none" /\ ~ds.isError

\* C1: when an encoder returns with k entries in the quarantine list, the
\* header row counts of the returned partitions sum to N - k: every input
\* element is a row or is quarantined, none is dropped and none counted twice
C1_EveryElementRowOrQuarantined ==
    EncoderReturned => TotalRows(ds.partitions) = Len(L) - Len(bad)

\* C2: the rows of the partitions, read in partition-list order, come from
\* strictly increasing input indices (at every iteration and in the dataset
\* returned, rollovers included), and every quarantine entry holds the
\* position of its object in the input
C2_RowsInInputOrder ==
    pc \in {"loop", "tail"} =>
        LET rows == IF encoder = "slow" THEN v ELSE AllRows(Written)
            out  == AllRows(ds.partitions)
        IN  /\ \A a, b \in 1..Len(rows) : a < b => rows[a].src < rows[b].src
            /\ \A a \in 1..Len(rows) : rows[a].src \in 0..(i - 1)
            /\ EncoderReturned => out = rows
            /\ \A k \in 1..Len(bad) :
                  /\ bad[k][1] \in 0..(Len(L) - 1)
                  /\ bad[k][2] = L[bad[k][1] + 1]
                  /\ \A a \in 1..Len(rows) : rows[a].src # bad[k][1]
            /\ \A j, k \in 1..Len(bad) : j < k => bad[j][1] <= bad[k][1]

C2_Witness ==
    /\ EncoderReturned
    /\ encoder \in {"i64", "str", "tuple"}
    /\ Len(ds.partitions) >= 2
    /\ Len(AllRows(ds.partitions)) >= 2
    /\ bad # <<>>
    /\ \E k \in 1..Len(bad) : bad[k][1] = 1

RECURSIVE SumLen(_)
SumLen(rows) == IF rows = <<>> THEN 0 ELSE Head(rows).len + SumLen(Tail(rows))

IsFast == encoder \in {"bool", "i64", "f64", "str", "tuple", "dict"}

\* C3: in the fast encoders the header word of every partition, the one
\* being written and the ones pushed or returned, is the number of complete
\* rows in its payload, 0 for a fresh partition, and the cursor stands right
\* after the last complete row
C3_HeaderCountsCompleteRows ==
    (IsFast /\ pc \in {"loop", "tail", "returned"}) =>
        /\ \A k \in 1..Len(Written) :
              /\ Written[k].numRows = Len(Written[k].rows)
              /\ \A a \in 1..Len(Written[k].rows) :
                    Written[k].rows[a].off = SumLen(SubSeq(Written[k].rows, 1, a - 1))
        /\ \A k \in 1..Len(ds.partitions) :
              ds.partitions[k].numRows = Len(ds.partitions[k].rows)
        /\ pc = "loop" =>
              /\ ptr = SumLen(partition.rows)
              /\ numBytesSerialized = ptr

C3_Witness ==
    /\ IsFast
    /\ pc = "tail"
    /\ Len(ds.partitions) >= 2
    /\ \E k \in 1..Len(ds.partitions) : ds.partitions[k].numRows >= 2
    /\ bad # <<>>

\* the input indices this call quarantined
QuarantinedIndices == {quarantined[k] : k \in 1..Len(quarantined)}

\* C4: when a call that quarantined an element has returned, as many
\* references were released as were acquired for each quarantined object
C4_QuarantineReferencesBalanced ==
    (pc = "returned" /\ quarantined # <<>>) =>
        \A idx \in QuarantinedIndices : refAcquired[idx + 1] = refReleased[idx + 1]

\* the number of entries of the quarantine list for input index idx
EntriesOf(idx) == Cardinality({k \in 1..Len(bad) : bad[k][1] = idx})

\* C5: a poll of the slow encoder that sees the interrupt flag set releases
\* one reference per quarantine entry, empties the quarantine list and the
\* row vector, returns the error dataset "interrupted transfer" made by
\* makeError and not by the backend parallelize, and leaves the flag set
C5_InterruptedSlowTransfer ==
    [][(pc = "loop" /\ encoder = "slow" /\ i < Len(L) /\ interrupted) =>
          /\ \A idx \in 0..(Len(L) - 1) :
                refReleased'[idx + 1] = refReleased[idx + 1] + EntriesOf(idx)
          /\ refAcquired' = refAcquired
          /\ bad' = <<>>
          /\ v' = <<>>
          /\ ds' = [origin |-> "makeError", isError |-> TRUE,
                    msg |-> "interrupted transfer", partitions |-> <<>>]
          /\ pc' = "tail"
          /\ interrupted']_vars

C5_Witness ==
    /\ pc = "tail"
    /\ encoder = "slow"
    /\ ds.isError /\ ds.msg = "interrupted transfer"
    /\ interrupted
    /\ i \in 1..(Len(L) - 1)
    /\ \E idx \in QuarantinedIndices : refReleased[idx + 1] = 1
    /\ bad = <<>>

\* C6: the quarantine list is empty whenever parallelize has returned or
\* thrown and between calls; during a call it holds entries of this call's
\* input only, and the warning counts exactly the entries this call left
C6_QuarantineEmptyAtReturn ==
    /\ pc \in {"idle", "returned", "thrown"} => bad = <<>>
    /\ pc \in {"loop", "tail"} =>
          /\ Len(bad) <= Len(quarantined)
          /\ \A k \in 1..Len(bad) : bad[k] = <<quarantined[k], L[quarantined[k] + 1]>>
    /\ pc = "returned" =>
          warned = (IF ds.msg = "interrupted transfer" THEN 0 ELSE Len(quarantined))

C6_Witness ==
    /\ pc = "returned"
    /\ warned >= 2
    /\ bad = <<>>
    /\ ~ds.isError

\* the encoder the claim names for row type t, "none" for the error dataset
C7_Table(t) ==
    IF t[1] = "Dict" THEN (IF t[2] = Type_STRING THEN "dict" ELSE "slow")
    ELSE IF t = Type_BOOLEAN THEN "bool"
    ELSE IF t = Type_I64 THEN "i64"
    ELSE IF t = Type_F64 THEN "f64"
    ELSE IF t = Type_STRING THEN "str"
    ELSE IF t[1] = "Tuple"
         THEN (IF \A k \in 1..Len(t[2]) : t[2][k] \in SimpleTypes THEN "tuple" ELSE "slow")
    ELSE IF t[1] \in {"Option", "List"} THEN "slow"
    ELSE IF t \in {Type_NULLVALUE, Type_EMPTYDICT, Type_GENERICDICT, Type_PYOBJECT} THEN "slow"
    ELSE "none"

\* C7: the encoder a call runs is the one the row type alone decides; for a
\* type outside the table no encoder runs and the result is the error
\* dataset "unsupported type"
C7_EncoderFromRowTypeAlone ==
    (fileOp = "none" /\ pc \in {"loop", "tail", "returned", "thrown"}) =>
        /\ encoder = C7_Table(rowType)
        /\ (C7_Table(rowType) = "none" /\ pc # "loop") =>
              ds.isError /\ ds.msg = "unsupported type"

\* C8: a call whose row type is UNKNOWN logs an error, runs the slow encoder
\* and returns a dataset that is no error and has no rows
C8_UnknownRunsSlowEncoder ==
    (fileOp = "none" /\ pc = "returned" /\ rowType = Type_UNKNOWN) =>
        /\ "unknown type" \in log
        /\ encoder = "slow"
        /\ ~ds.isError
        /\ TotalRows(ds.partitions) = 0

(***************************************************************************)
(* Claims about csv, text and cp.                                          *)
(***************************************************************************)
\* C11: no exception leaves parallelize, csv, text or cp: every failure of
\* a call is an error dataset or a returned result
C11_NoExceptionLeavesACall == pc # "thrown"

GenericMessage == "unknown C++ exception occurred, please change type."

\* C12: csv and text return an error dataset carrying m when the reader
\* throws a std::exception with message m, one carrying the generic message
\* when it throws anything else, exactly the reader's dataset when it
\* returns, and never let the exception through
C12_ReaderFailureBecomesErrorDataSet ==
    fileOp \in {"csv", "text"} =>
        /\ pc # "thrown"
        /\ (pc = "returned" /\ backend.kind = "std") =>
              ds.origin = "makeError" /\ ds.isError /\ ds.msg = backend.msg
        /\ (pc = "returned" /\ backend.kind = "other") =>
              ds.origin = "makeError" /\ ds.isError /\ ds.msg = GenericMessage
        /\ (pc = "returned" /\ backend.kind = "returned") => ds = backend.ds

C12_Witness ==
    /\ fileOp = "text"
    /\ pc = "returned"
    /\ backend.kind = "std"
    /\ backend.msg = ""
    /\ ds.isError

\* C13: csv or text entered with a signal pending returns an error dataset
\* at once, the reader not called and the lock not released; and a step of
\* a fast encoder neither reads nor changes the interrupt flag: with the
\* flag set it goes on to the next element or to its normal return
C13_PendingSignalStopsFileSource ==
    [][/\ (pc = "idle" /\ interrupted /\ fileOp' \in {"csv", "text"}) =>
             /\ pc' = "returned"
             /\ ds'.isError /\ ds'.msg = "job aborted via signal"
             /\ backend' = NotCalled
             /\ gil /\ gil'
       /\ (pc = "loop" /\ IsFast) =>
             /\ interrupted' = interrupted
             /\ \/ pc' = "loop" /\ i' = i + 1
                \/ pc' = "tail" /\ i = Len(L) /\ ~ds'.isError]_vars

C13_Witness ==
    /\ fileOp = "csv"
    /\ pc = "returned"
    /\ ds.isError /\ ds.msg = "job aborted via signal"
    /\ backend = NotCalled
    /\ gil

(***************************************************************************)
(* Claims about the rows the fast encoders write.                          *)
(***************************************************************************)
\* this step appended one row, encoded from element i, and quarantined nothing
StepAcceptedRow ==
    /\ Len(AllRows(Written)') = Len(AllRows(Written)) + 1
    /\ SubSeq(AllRows(Written)', 1, Len(AllRows(Written))) = AllRows(Written)
    /\ AllRows(Written)'[Len(AllRows(Written)')].src = i
    /\ bad' = bad

\* the row this step appended
NewRow == AllRows(Written)'[Len(AllRows(Written)')]

\* this step quarantined element i once, with its index, and wrote no row
StepQuarantined ==
    /\ AllRows(Written)' = AllRows(Written)
    /\ TotalRows(Written)' = TotalRows(Written)
    /\ bad' = Append(bad, <<i, L[i + 1]>>)

\* whether the encoder enc accepts obj going by its kind and autoUpcast;
\* with anyInteger every exact integer counts, else those that fit 64 bits
AcceptedKind(enc, obj, anyInteger) ==
    LET integer == PyLong_CheckExact(obj) /\ (anyInteger \/ obj[3])
    IN  CASE enc = "bool" -> PyBool_Check(obj)
          [] enc = "i64" -> integer \/ (upcast /\ PyBool_Check(obj))
          [] enc = "f64" -> PyFloat_CheckExact(obj)
                            \/ (upcast /\ (PyBool_Check(obj) \/ integer))
          [] enc = "str" -> PyUnicode_Check(obj)

\* the first slot of the row the encoder enc writes for obj
WrittenValue(enc, obj) ==
    CASE enc \in {"bool", "i64"} -> obj[2]
      [] enc = "f64" -> IF PyFloat_CheckExact(obj) THEN obj[2] ELSE 2 * obj[2]
      [] enc = "str" -> <<2 * SlotSize, Len(obj[2]) + 1>>

ScalarStep == pc = "loop" /\ encoder \in {"bool", "i64", "f64", "str"} /\ i < Len(L)

\* C14 as stated: a scalar fast encoder accepts an element going by its
\* kind and autoUpcast alone (every exact integer in the i64 encoder and,
\* with autoUpcast, in the f64 encoder) and quarantines every other element
\* with its index
C14_AcceptanceByKindAndUpcast ==
    [][ScalarStep =>
          IF AcceptedKind(encoder, L[i + 1], TRUE)
          THEN StepAcceptedRow /\ NewRow.slots[1] = WrittenValue(encoder, L[i + 1])
          ELSE StepQuarantined]_vars

\* C14 amended: as stated, for the exact integers that fit in 64 bits; an
\* exact integer that does not fit is quarantined
C14_AcceptanceByKindUpcastAndWidth ==
    [][ScalarStep =>
          IF AcceptedKind(encoder, L[i + 1], FALSE)
          THEN StepAcceptedRow /\ NewRow.slots[1] = WrittenValue(encoder, L[i + 1])
          ELSE StepQuarantined]_vars

\* the i64 encoder without autoUpcast has quarantined a boolean and an
\* integer that does not fit, and written an integer
C14_Witness ==
    /\ pc = "tail"
    /\ encoder = "i64"
    /\ ~upcast
    /\ \E k \in 1..Len(bad) : PyBool_Check(bad[k][2])
    /\ \E k \in 1..Len(bad) : bad[k][2] = PyLongTooLarge(9)
    /\ \E k \in 1..Len(AllRows(ds.partitions)) : AllRows(ds.partitions)[k].slots = <<2>>

\* element i holds an exact integer that does not fit in 64 bits where the
\* encoder encodes an integer
OverflowingInteger ==
    LET obj == L[i + 1]
        big(o) == PyLong_CheckExact(o) /\ ~o[3]
    IN  CASE encoder = "i64" -> big(obj)
          [] encoder = "f64" -> upcast /\ big(obj)
          [] encoder = "tuple" ->
                /\ PyTuple_Check(obj)
                /\ Len(obj[2]) = Len(parameters(majType))
                /\ \E j \in 1..Len(obj[2]) : parameters(majType)[j] = Type_I64 /\ big(obj[2][j])
          [] OTHER -> FALSE

\* C15: a fast encoder that meets an integer that does not fit in 64 bits
\* writes no row for the element, quarantines it once, leaves no runtime
\* error pending and goes on with the next element
C15_OverflowIsQuarantined ==
    [][(pc = "loop" /\ i < Len(L) /\ OverflowingInteger) =>
          /\ StepQuarantined
          /\ ~pyErr'
          /\ pc' = "loop" /\ i' = i + 1]_vars

\* the code points of a UTF-8 byte sequence; 65533 stands for bytes that
\* are no complete character
RECURSIVE UTF8Decode(_)
UTF8Decode(bytes) ==
    IF bytes = <<>> THEN <<>>
    ELSE IF Head(bytes) < 128 THEN <<Head(bytes)>> \o UTF8Decode(Tail(bytes))
    ELSE IF /\ Head(bytes) \in 192..223
            /\ Len(bytes) >= 2
            /\ bytes[2] \in 128..191
         THEN <<(Head(bytes) - 192) * 64 + (bytes[2] - 128)>>
              \o UTF8Decode(Tail(Tail(bytes)))
    ELSE <<65533>> \o UTF8Decode(Tail(bytes))

\* a row read back by the row layout: one 8-byte value, or for a string the
\* bytes the descriptor names, without the last one, which holds the NUL
DecodeRow(enc, row) ==
    CASE enc = "bool" -> <<"bool", row.slots[1]>>
      [] enc = "i64" -> <<"int", row.slots[1], TRUE>>
      [] enc = "str" ->
            LET size == row.slots[1][2]
                from == row.slots[1][1] - 2 * SlotSize
            IN  <<"str", UTF8Decode(SubSeq(row.tail, from + 1, from + size - 1))>>

DecodeRows(enc, rows) == [k \in 1..Len(rows) |-> DecodeRow(enc, rows[k])]

\* the input is a list the encoder enc is the matching fast encoder of
MatchingList(enc) ==
    CASE enc = "bool" -> \A k \in 1..Len(L) : PyBool_Check(L[k])
      [] enc = "i64" -> \A k \in 1..Len(L) : PyLong_CheckExact(L[k]) /\ L[k][3]
      [] enc = "str" -> \A k \in 1..Len(L) : PyUnicode_Check(L[k])
      [] OTHER -> FALSE

\* C16: for a list of booleans, of 64-bit integers or of strings, the
\* partitions the matching fast encoder returns decode to the input list,
\* and nothing is quarantined
C16_FastRoundTrip ==
    (EncoderReturned /\ MatchingList(encoder)) =>
        /\ bad = <<>>
        /\ DecodeRows(encoder, AllRows(ds.partitions)) = L

\* the field types of the rows of the encoder in use
FieldTypes == IF encoder = "str" THEN <<Type_STRING>> ELSE parameters(majType)

\* the element field j of the row was encoded from
SourceField(row, j) ==
    IF encoder = "str" THEN L[row.src + 1] ELSE L[row.src + 1][2][j]

\* the tail bytes the string fields before field j of the row take
RECURSIVE TailBefore(_, _)
TailBefore(row, j) ==
    IF j <= 1 THEN 0
    ELSE TailBefore(row, j - 1)
         + (IF FieldTypes[j - 1] = Type_STRING THEN row.slots[j - 1][2] ELSE 0)

\* C17: every string field of a row of the str and tuple encoders has a
\* descriptor whose offset is (n + 1 - j) * 8 plus the tail bytes of the
\* earlier fields and whose length is the UTF-8 byte length of the string
\* plus one for the NUL; the field ends inside the bytes reserved for the
\* row and inside the partition, and its last byte is 0
C17_DescriptorsValid ==
    (pc \in {"loop", "tail"} /\ encoder \in {"str", "tuple"}) =>
        \A k \in 1..Len(Written) : \A a \in 1..Len(Written[k].rows) :
            LET row == Written[k].rows[a]
                n == Len(FieldTypes)
            IN  \A j \in 1..n : FieldTypes[j] = Type_STRING =>
                    LET offset == row.slots[j][1]
                        length == row.slots[j][2]
                        \* where the field ends, counted from the row start
                        end == (j - 1) * SlotSize + offset + length
                    IN  /\ offset = (n + 1 - (j - 1)) * SlotSize + TailBefore(row, j)
                        /\ length = Len(PyUnicode_AsUTF8(SourceField(row, j)[2])) + 1
                        /\ end <= row.len
                        /\ row.off + end <= Written[k].capacity
                        /\ TailBefore(row, j) + length <= Len(row.tail)
                        /\ row.tail[TailBefore(row, j) + length] = 0

\* the column list does not fit the row type t: several names for a scalar
\* row type, or not as many names as a tuple row type has fields
ColumnsMisfit(cols, t) ==
    \/ t \in SimpleTypes /\ Len(cols) > 1
    \/ isTupleType(t) /\ cols # <<>> /\ Len(cols) # Len(parameters(t))

\* C18: a call with a column list that does not fit the row type enters no
\* encoder and returns an error dataset with a message, so the column
\* counts the encoders assert hold whenever an encoder runs
C18_ColumnListFitsRowType ==
    (fileOp = "none" /\ pc \in {"loop", "tail", "returned"}) =>
        /\ ColumnsMisfit(columns, rowType) =>
              /\ encoder = "none"
              /\ pc # "loop"
              /\ ds.isError /\ ds.msg # ""
        /\ encoder \in {"bool", "i64", "f64", "str"} => Len(columns) <= 1
        /\ encoder = "tuple" =>
              columns = <<>> \/ Len(parameters(majType)) = Len(columns)

\* the string keys of a mapping row
StringKeys(obj) ==
    { PyUnicode_AsUTF8(obj[2][n][1][2]) :
        n \in {x \in 1..Len(obj[2]) : PyUnicode_Check(obj[2][x][1])} }

\* the mapping rows among the first k rows of the list
RECURSIVE NumDicts(_, _)
NumDicts(list, k) ==
    IF k = 0 THEN 0
    ELSE NumDicts(list, k - 1) + (IF PyDict_Check(list[k]) THEN 1 ELSE 0)

\* the mapping rows among the first k rows that have the string key c
RECURSIVE KeyCount(_, _, _)
KeyCount(list, c, k) ==
    IF k = 0 THEN 0
    ELSE KeyCount(list, c, k - 1)
         + (IF PyDict_Check(list[k]) /\ c \in StringKeys(list[k]) THEN 1 ELSE 0)

\* ceil(nu * n) for the fraction nu = <<num, den>>
CeilOf(nu, n) == (nu[1] * n + nu[2] - 1) \div nu[2]

\* the keys that meet the threshold nu
NormalKeys(list, nu) ==
    { c \in UNION {StringKeys(list[k]) : k \in {x \in 1..Len(list) : PyDict_Check(list[x])}} :
        KeyCount(list, c, Len(list)) >= CeilOf(nu, NumDicts(list, Len(list))) }

\* the value a mapping row holds under the string key c
ValueUnder(obj, c) ==
    obj[2][CHOOSE n \in 1..Len(obj[2]) :
              PyUnicode_Check(obj[2][n][1]) /\ PyUnicode_AsUTF8(obj[2][n][1][2]) = c][2]

\* the values found under the key c, in the order of the rows
PooledValues(list, c) ==
    LET rows == SelectSeq(list, LAMBDA o : PyDict_Check(o) /\ c \in StringKeys(o))
    IN  [k \in 1..Len(rows) |-> ValueUnder(rows[k], c)]

\* the index of the first mapping row from k on whose keys are all strings,
\* 0 when there is none
RECURSIVE FirstStringKeyedRow(_, _)
FirstStringKeyedRow(list, k) ==
    IF k > Len(list) THEN 0
    ELSE IF PyDict_Check(list[k])
            /\ \A n \in 1..Len(list[k][2]) : PyUnicode_Check(list[k][2][n][1])
         THEN k
         ELSE FirstStringKeyedRow(list, k + 1)

\* a call that went through the dict column projector
DictCall ==
    /\ fileOp = "none"
    /\ pc \in {"loop", "tail", "returned", "thrown"}
    /\ ChooseEncoder(rowType) = "dict"

\* the state shows the map with keys E and, for key c, a type of T[c]: the
\* columns are the keys of the map (or the two names of the caller) and a
\* column has the type of the map, or PYOBJECT when the map lacks it
ShowsColumnMap(E, T) ==
    /\ encoder = "dict"
    /\ isTupleType(majType)
    /\ Len(parameters(majType)) = Len(columns)
    /\ \/ {columns[k] : k \in 1..Len(columns)} = E /\ Len(columns) = Cardinality(E)
       \/ columns = <<Str_a, Str_b>>
    /\ \A k \in 1..Len(columns) :
          IF columns[k] \in E THEN parameters(majType)[k] \in T[columns[k]]
          ELSE parameters(majType)[k] = Type_PYOBJECT

\* C19: the dict column projector returns the keys that meet the threshold
\* with the type inferred from their pooled values; when none meets it, the
\* key-to-type map of the first mapping row whose keys are all strings; and
\* fails with the inference error when there is no such row
C19_DictColumnProjector ==
    DictCall =>
        LET normal == NormalKeys(L, options.NORMALCASE_THRESHOLD)
            first == FirstStringKeyedRow(L, 1)
        IN  IF normal # {}
            THEN ShowsColumnMap(normal,
                    [c \in normal |-> inferType(PooledValues(L, c), options.OPTIONAL_THRESHOLD)])
            ELSE IF first = 0
            THEN pc = "thrown" /\ encoder = "none"
            ELSE ShowsColumnMap(StringKeys(L[first]),
                    [c \in StringKeys(L[first]) |->
                        {mapPythonClassToTuplexType(ValueUnder(L[first], c))}])

\* a dataset was built from mapping rows of which one key met the threshold
\* and another did not
C19_Witness ==
    /\ DictCall /\ pc = "returned" /\ ~ds.isError
    /\ Len(columns) = 2 /\ columns # <<Str_a, Str_b>>
    /\ NormalKeys(L, options.NORMALCASE_THRESHOLD) # {}
    /\ \E k \in 1..Len(L) :
          /\ PyDict_Check(L[k])
          /\ StringKeys(L[k]) \ NormalKeys(L, options.NORMALCASE_THRESHOLD) # {}

\* the first-row fallback was taken with several mapping rows in the list
C19_FallbackWitness ==
    /\ DictCall /\ pc = "returned" /\ ~ds.isError
    /\ NormalKeys(L, options.NORMALCASE_THRESHOLD) = {}
    /\ NumDicts(L, Len(L)) >= 2
    /\ columns # <<Str_a, Str_b>>

\* the type check the tuple encoder makes of the element el of a field of type t
FieldPasses(t, el) ==
    CASE t = Type_BOOLEAN -> PyBool_Check(el)
      [] t = Type_I64 -> PyLong_CheckExact(el)
      [] t = Type_F64 -> PyFloat_CheckExact(el)
      [] t = Type_STRING -> PyUnicode_Check(el)
      [] OTHER -> TRUE

\* obj is a tuple of the arity of the row type whose first field passes its
\* type check and one of whose later fields fails it
LaterFieldFails(obj) ==
    /\ PyTuple_Check(obj)
    /\ Len(obj[2]) = Len(parameters(majType))
    /\ Len(obj[2]) >= 2
    /\ FieldPasses(parameters(majType)[1], obj[2][1])
    /\ \E j \in 2..Len(obj[2]) : ~FieldPasses(parameters(majType)[j], obj[2][j])

TupleStep == pc = "loop" /\ encoder = "tuple" /\ i < Len(L)

\* no committed row was encoded from a quarantined element
NoRowOfQuarantined ==
    \A k \in 1..Len(AllRows(Written)) : AllRows(Written)[k].src \notin QuarantinedIndices

\* a row the tuple encoder accepts is written at the cursor the previous step
\* left, or at the start of the partition its own capacity check opened
AcceptedAtCursor ==
    (TupleStep /\ StepAcceptedRow) =>
        NewRow.off = (IF partitions' = partitions THEN ptr ELSE 0)

C21_WritesWithinCapacity ==
    (fileOp = "none" /\ encoder \in {"bool", "i64", "f64", "str", "tuple"}
       /\ pc \in {"loop", "tail", "returned"}) =>
        /\ \A k \in 1..Len(Written) :
              SlotSize + SumLen(Written[k].rows) <= Written[k].capacity
        /\ \A k \in 1..Len(ds.partitions) :
              SlotSize + SumLen(ds.partitions[k].rows) <= ds.partitions[k].capacity

DictStep == pc = "loop" /\ encoder = "dict" /\ i < Len(L)

\* C22: when the dict encoder writes a row it starts a new partition exactly
\* when capacity < written + minSize, whatever the serialized length of the
\* row, and asks for the new partition with minSize; the row is written at
\* the cursor also when it is longer than what is left
C22_DictCapacityCheckByMinSize ==
    [][(DictStep /\ StepAcceptedRow) =>
          IF partition.capacity < numBytesSerialized + DictAllocMinSize
          THEN /\ partitions' = Append(partitions, unlockWrite(partition))
               /\ partition'.capacity \in {DictAllocMinSize, DictAllocMinSize + AllocSlack}
               /\ NewRow.off = 0
               /\ numBytesSerialized' = NewRow.len
          ELSE /\ partitions' = partitions
               /\ partition'.capacity = partition.capacity
               /\ NewRow.off = numBytesSerialized
               /\ numBytesSerialized' = numBytesSerialized + NewRow.len]_vars

\* a row longer than minSize ends past the capacity of its partition
C22_Witness ==
    /\ fileOp = "none" /\ encoder = "dict" /\ pc \in {"loop", "tail", "returned"}
    /\ \E k \in 1..Len(Written) :
       \E a \in 1..Len(Written[k].rows) :
          /\ Written[k].rows[a].len > DictAllocMinSize
          /\ Written[k].rows[a].off + Written[k].rows[a].len > Written[k].capacity
          /\ Written[k].numRows >= a

\* the input indices that have an entry in the quarantine list
ListedIndices == {bad[k][1] : k \in 1..Len(bad)}

\* C23: every entry of the quarantine list owns one reference to its object
\* while it is in the list (the object of index idx has one acquired and
\* not yet released reference per entry), and an entry leaves the list only
\* with that reference released
C23_EntriesOwnOneReference ==
    /\ [](fileOp = "none" =>
            \A idx \in ListedIndices :
               refAcquired[idx + 1] - refReleased[idx + 1] = EntriesOf(idx))
    /\ [][(fileOp = "none" /\ pc \in {"loop", "tail"} /\ Len(bad') < Len(bad)) =>
            \A idx \in ListedIndices :
               refReleased'[idx + 1] = refReleased[idx + 1] + EntriesOf(idx)]_vars

\* a fast encoder is at work on a list with elements
FastCall == fileOp = "none" /\ IsFast /\ Len(L) > 0

\* partition q is partition p with nothing or one more row written into it
SamePartitionWrittenOn(p, q) ==
    /\ q.capacity = p.capacity
    /\ q.locked = p.locked
    /\ \/ q.rows = p.rows
       \/ Len(q.rows) = Len(p.rows) + 1 /\ SubSeq(q.rows, 1, Len(p.rows)) = p.rows

\* C24: in a fast encoder with a list that has elements the partition being
\* written is the one locked partition; a step writes on into it or unlocks
\* it, appends it to the partition list and goes on with a fresh locked one;
\* the return unlocks and appends the last partition, rows or no rows, and
\* hands fromPartitions the list with no partition locked
C24_PartitionLifecycle ==
    /\ [](FastCall =>
            /\ pc = "loop" =>
                  /\ partition # NoPartition /\ partition.locked
                  /\ \A k \in 1..Len(partitions) : ~partitions[k].locked
            /\ pc \in {"tail", "returned"} =>
                  /\ partition = NoPartition
                  /\ ds.origin = "fromPartitions"
                  /\ ds.partitions = partitions
                  /\ Len(partitions) >= 1
                  /\ \A k \in 1..Len(partitions) : ~partitions[k].locked)
    /\ [][(FastCall /\ pc = "loop") =>
            \/ /\ pc' = "loop"
               /\ partitions' = partitions
               /\ SamePartitionWrittenOn(partition, partition')
            \/ /\ pc' = "loop"
               /\ partitions' = Append(partitions, unlockWrite(partition))
               /\ partition' # NoPartition /\ partition'.locked
               /\ Len(partition'.rows) <= 1
            \/ /\ pc' = "tail"
               /\ partitions' = Append(partitions, unlockWrite(partition))
               /\ partition' = NoPartition]_vars

\* a dataset of several partitions was returned whose last partition has no rows
C24_Witness ==
    /\ FastCall /\ pc = "tail"
    /\ Len(ds.partitions) >= 2
    /\ ds.partitions[Len(ds.partitions)].numRows = 0
    /\ \E k \in 1..Len(ds.partitions) : ds.partitions[k].numRows >= 1

\* the events e among the first k events of the trace
CountIn(trace, e, k) == Cardinality({n \in 1..k : trace[n] = e})

\* the lock is held right before event k of the trace, the operation having
\* been entered with the lock held
HeldBefore(trace, k) ==
    CountIn(trace, "unlockGIL", k - 1) = CountIn(trace, "lockGIL", k - 1)

\* C28: csv and text, the signal check passed, release the lock once before
\* the reader is called, do not hold it during that call, hold it again
\* when they return, whatever the reader did, and inspect their arguments
\* only with the lock held
C28_ReaderRunsUnlocked ==
    (fileOp \in {"csv", "text"} /\ gilTrace # <<>>) =>
        /\ pc = "unlocked" => ~gil /\ gilTrace = <<"extract", "unlockGIL">>
        /\ pc = "called" => ~gil /\ gilTrace = <<"extract", "unlockGIL", "reader">>
        /\ pc = "returned" =>
              /\ gil
              /\ backend.kind \in {"returned", "std", "other"}
              /\ gilTrace = <<"extract", "unlockGIL", "reader", "lockGIL">>
        /\ \A k \in 1..Len(gilTrace) :
              /\ gilTrace[k] = "extract" => HeldBefore(gilTrace, k)
              /\ gilTrace[k] = "reader" => ~HeldBefore(gilTrace, k)

\* text returned after its reader threw something that is no std::exception
C28_Witness ==
    /\ fileOp = "text"
    /\ pc = "returned"
    /\ backend.kind = "other"
    /\ gil
    /\ CountIn(gilTrace, "unlockGIL", Len(gilTrace)) = 1
    /\ CountIn(gilTrace, "lockGIL", Len(gilTrace)) = 1

\* C29: in the dict encoder an input index has at most one entry in the
\* quarantine list, so the list is as long as the number of rejected rows
C29_DictQuarantinesOnce ==
    (fileOp = "none" /\ encoder = "dict" /\ pc \in {"loop", "tail"}) =>
        /\ \A idx \in ListedIndices : EntriesOf(idx) = 1
        /\ Len(bad) = Cardinality(ListedIndices)

\* C30: the constructor, the destructor, ls and rm hold the lock again when
\* they are left, by return or by exception, having taken it as often as
\* they released it
C30_LockHeldOnEveryExit ==
    (fileOp \in {"ctor", "dtor", "ls", "rm"} /\ pc \in {"returned", "thrown"}) =>
        /\ gil
        /\ CountIn(gilTrace, "unlockGIL", Len(gilTrace))
             = CountIn(gilTrace, "lockGIL", Len(gilTrace))

(***************************************************************************)
(* Claims about the inference.                                             *)
(***************************************************************************)
NonNullScalars == {Type_BOOLEAN, Type_I64, Type_F64, Type_STRING}
CountOf(t) == IF t \in DOMAIN mTypes THEN mTypes[t] ELSE 0
\* the sample holds values of the scalar type T and NULL values only
SampleOfTAndNull(T) ==
    /\ inferPc = "done"
    /\ numSample > 0
    /\ DOMAIN mTypes \subseteq {T, Type_NULLVALUE}

\* C9 as stated: for a sample of one non-null scalar type T and NULL values
\* the result is Option(T) exactly when the null fraction lies in
\* (1 - theta, theta), also when the NULL values outnumber the T values.
\* (Samples with as many T as NULL values are left out: what they give
\* depends on the order std::sort leaves the two types in.)
C9_OptionIffInBand ==
    \A T \in NonNullScalars :
        SampleOfTAndNull(T) /\ CountOf(T) > 0 /\ CountOf(T) # CountOf(Type_NULLVALUE) =>
            (inferredType = makeOptionType(T)
                <=> InBand(CountOf(Type_NULLVALUE), numSample, options.OPTIONAL_THRESHOLD))

\* C9 amended: the result is Option(T) exactly when the null fraction lies
\* in the band and T was picked as the majority type: with more T than NULL
\* values the result is Option(T) iff the fraction is in the band, with more
\* NULL than T values it is NULL, and with equally many it is one of the two.
C9_OptionIffInBandAndMajority ==
    \A T \in NonNullScalars :
        SampleOfTAndNull(T) /\ CountOf(T) > 0 =>
            /\ CountOf(T) > CountOf(Type_NULLVALUE) =>
                 /\ inferredType \in {T, makeOptionType(T)}
                 /\ inferredType = makeOptionType(T)
                      <=> InBand(CountOf(Type_NULLVALUE), numSample,
                                 options.OPTIONAL_THRESHOLD)
            /\ CountOf(T) < CountOf(Type_NULLVALUE) => inferredType = Type_NULLVALUE
            /\ CountOf(T) = CountOf(Type_NULLVALUE) =>
                 inferredType \in {makeOptionType(T), Type_NULLVALUE}

\* a sample with more T than NULL values, some NULL, lifted to Option(T)
C9_Witness ==
    /\ SampleOfTAndNull(Type_I64)
    /\ CountOf(Type_I64) > CountOf(Type_NULLVALUE)
    /\ CountOf(Type_NULLVALUE) > 0
    /\ InBand(CountOf(Type_NULLVALUE), numSample, options.OPTIONAL_THRESHOLD)
    /\ inferredType = makeOptionType(Type_I64)

\* C10: a non-empty sample whose values all classify to the same non-dict
\* type T is inferred as exactly T, for every threshold.
C10_SameTypeIsReturned ==
    \A T \in DOMAIN mTypes :
        inferPc = "done" /\ DOMAIN mTypes = {T} /\ ~isDictionaryType(T) =>
            inferredType = T

\* several tuples of one type (with a NULL field) inferred as that tuple type
C10_Witness ==
    /\ inferPc = "done"
    /\ numSample >= 2
    /\ DOMAIN mTypes = {makeTupleType(<<Type_NULLVALUE, Type_STRING>>)}
    /\ inferredType = makeTupleType(<<Type_NULLVALUE, Type_STRING>>)

\* the largest count of the histogram
MaxCount == CHOOSE n \in {mTypes[t] : t \in DOMAIN mTypes} :
               \A t \in DOMAIN mTypes : mTypes[t] <= n

\* the types that have the largest count, and the tuple types that have the
\* largest count among the tuple types
MajorityTypes == {t \in DOMAIN mTypes : mTypes[t] = MaxCount}
TupleTypesSeen == {t \in DOMAIN mTypes : isTupleType(t)}
MajorityTupleTypes ==
    {t \in TupleTypesSeen : \A u \in TupleTypesSeen : mTypes[u] <= mTypes[t]}

RECURSIVE SumCounts(_)
SumCounts(S) ==
    IF S = {} THEN 0
    ELSE LET t == CHOOSE x \in S : TRUE IN mTypes[t] + SumCounts(S \ {t})

\* the summed count of the histogram types that have a super-option with mt
NumWith(mt) ==
    SumCounts({t \in DOMAIN mTypes : hasSuperOptionType(t, mt, Type_UNKNOWN)[1]})

\* the sample was built into a type, it has one majority type m and one
\* majority tuple type mt, and the result is not what m alone gives: the
\* option-lifted tuple took the place of m
ReplacedBySuperTuple(m, mt) ==
    /\ inferPc = "done"
    /\ MajorityTypes = {m}
    /\ MajorityTupleTypes = {mt}
    /\ inferredType # OptionLift(m, mTypes, numSample, options.OPTIONAL_THRESHOLD)

\* C25 as stated: the option-lifted tuple replaces the majority type only
\* when cov = NumWith(mt) - count(mt) is above the largest count and
\* cov/|sample| lies in (1 - theta, theta)
C25_ReplacedOnlyIfCovAboveMax ==
    \A m \in DOMAIN mTypes : \A mt \in DOMAIN mTypes :
        ReplacedBySuperTuple(m, mt) =>
            /\ NumWith(mt) - mTypes[mt] > MaxCount
            /\ InBand(NumWith(mt) - mTypes[mt], numSample, options.OPTIONAL_THRESHOLD)

\* the count line 852 has summed when the map is walked in the given order:
\* each type is tried against the tuple as lifted so far, mt at first
NumUnder(mt, mapOrder) == SuperTupleLoop(mTypes, mapOrder, 1, <<mt, 0>>)[2]

\* C25 amended: the replacement is made only when the summed count itself,
\* taken over the types that have a super-option with the tuple as lifted so
\* far and with the count of the majority tuple type included, is above the
\* largest count and that sum minus the count of the majority tuple type,
\* over |sample|, lies in (1 - theta, theta)
C25_ReplacedOnlyIfNumAboveMax ==
    \A m \in DOMAIN mTypes : \A mt \in DOMAIN mTypes :
        ReplacedBySuperTuple(m, mt) =>
            \E mapOrder \in Enumerations(DOMAIN mTypes) :
                /\ NumUnder(mt, mapOrder) > MaxCount
                /\ InBand(NumUnder(mt, mapOrder) - mTypes[mt], numSample,
                          options.OPTIONAL_THRESHOLD)

\* the lifted tuple replaced the majority tuple with cov below the largest count
C25_Witness ==
    /\ ReplacedBySuperTuple(makeTupleType(<<Type_I64, Type_STRING>>),
                            makeTupleType(<<Type_I64, Type_STRING>>))
    /\ inferredType = makeTupleType(<<makeOptionType(Type_I64), Type_STRING>>)
    /\ NumWith(makeTupleType(<<Type_I64, Type_STRING>>))
          - mTypes[makeTupleType(<<Type_I64, Type_STRING>>)] <= MaxCount

(***************************************************************************)
(* Claims about the option relations of types.                             *)
(***************************************************************************)
\* C26: isSubOptionType is a partial order on the types built from scalars,
\* NULL, Option and Tuple: reflexive, antisymmetric and transitive
C26_SubOptionIsPartialOrder ==
    typePc = "sub" =>
        /\ isSubOptionType(t1, t1)
        /\ (sub /\ isSubOptionType(t2, t1)) => t1 = t2
        /\ (sub /\ isSubOptionType(t2, t3)) => isSubOptionType(t1, t3)

\* C27: hasSuperOptionType(t1, t2) succeeds iff hasSuperOptionType(t2, t1)
\* does, and then with the same type; on success both arguments are
\* sub-option types of the result; on failure the out-parameter keeps the
\* value it had before the call
C27_SuperOptionCommutesAndBounds ==
    typePc = "super" =>
        /\ found = hasSuperOptionType(t2, t1, Type_PYOBJECT)[1]
        /\ found =>
              /\ super = hasSuperOptionType(t2, t1, Type_PYOBJECT)[2]
              /\ isSubOptionType(t1, super)
              /\ isSubOptionType(t2, super)
        /\ ~found => super = Type_PYOBJECT

\* two different tuple types were given the tuple of options above both
C27_Witness ==
    /\ typePc = "super"
    /\ found
    /\ t1 = makeTupleType(<<Type_I64, Type_NULLVALUE>>)
    /\ t2 = makeTupleType(<<Type_NULLVALUE, Type_STRING>>)
    /\ super = makeTupleType(<<makeOptionType(Type_I64), makeOptionType(Type_STRING)>>)

====
